---------------------------- MODULE Spec2Model ----------------------------
(***************************************************************************)
(* Model of the match scoring and result-cache engine of the ai-service    *)
(* (src/ai-service/app/matcher.py).                                        *)
(*                                                                         *)
(* Numbers.  Scores are Python floats in [0,1]; the model keeps them in    *)
(* fixed point, as integers in units of 1/Scale (Scale = 10^4, the         *)
(* precision of round(x, 4)); min_score, which is never rounded, has the   *)
(* finer unit 1/(Scale * Fine).  Normalised weights are kept as exact      *)
(* fractions num/den.  Embeddings are integer vectors of the (scaled-down) *)
(* dimension EMBEDDING_DIMENSION.                                          *)
(*                                                                         *)
(* Time.  One variable `now` stands for both clocks the code reads         *)
(* (time.monotonic() for the expiry, datetime.now() for the freshness);    *)
(* MATCH_CACHE_TTL_SECONDS and FRESHNESS_HALF_LIFE_DAYS are counted in     *)
(* its ticks.                                                              *)
(*                                                                         *)
(* Concurrency.  Every `await` of compute_matches is a point where another *)
(* task may run; _cache_lock is modelled with its FIFO queue of waiters.   *)
(***************************************************************************)
EXTENDS Integers, Sequences, FiniteSets, TLC

VARIABLES
    MATCH_CACHE_MAX_ENTRIES, \* matcher.py:42, read once from the environment
    now,                     \* the clock
    _cache,                  \* the OrderedDict: a sequence of entries, least recently used first
    lock_holder,             \* _cache_lock: the task holding it, or NoTask
    lock_waiters,            \* _cache_lock: tasks queued in acquire(), first come first
    pc,                      \* per task: where it is in compute_matches
    req,                     \* per task: index of its arguments in Requests
    cache_key,               \* per task: local cache_key
    results,                 \* per task: local results / the value returned
    note,                    \* per task (history): what this call did so far
    lru,                     \* history: the keys in use, by their latest use
    fn                       \* a function applied on its own: its input, its output

vars == <<MATCH_CACHE_MAX_ENTRIES, now, _cache, lock_holder, lock_waiters,
          pc, req, cache_key, results, note, lru, fn>>

---------------------------------------------------------------------------
(* Bounds of the model *)

MaxTime == 2          \* the clock stops ticking here
MaxEntries == 2       \* MATCH_CACHE_MAX_ENTRIES is configured in 0..MaxEntries
MaxJobs == 3          \* the longest job list of a request applied on its own
MaxTexts == 3         \* the longest list of texts of an embedding batch

(* Program constants, scaled *)

Scale == 10000                   \* one unit of score = 1/Scale
Fine == 10                       \* one unit of min_score = 1/(Scale * Fine)
YearUnit == 4                    \* one unit of experience = 1/YearUnit of a year
EMBEDDING_DIMENSION == 2         \* embeddings.py:40 (3072 there)
MATCH_CACHE_TTL_SECONDS == 1     \* matcher.py:41 (env, default 300)
FRESHNESS_HALF_LIFE_DAYS == 1    \* matcher.py:43 (env, default 30)
DEFAULT_MIN_SCORE == 30000       \* matcher.py:39, 0.3 in units of min_score
DEFAULT_MAX_RESULTS == 50        \* matcher.py:40
MAX_BATCH_SIZE == 1              \* embeddings.py:41 (env, default 32)
CACHE_TTL_SECONDS == 1           \* embeddings.py:42 (env, default 900)
CACHE_MAX_ENTRIES == 1           \* embeddings.py:43 (env, default 512)

Factors == {"embedding", "skills", "education", "experience", "freshness"}

DEFAULT_WEIGHTS ==
    [embedding |-> 6000, skills |-> 2000, education |-> 1000,
     experience |-> 500, freshness |-> 500]

Tasks == {"t1", "t2"}
NoTask == "none"

---------------------------------------------------------------------------
(* Optional values: Python's None / a missing dict key is <<>>, a present
   value x is <<x>>. *)

None == <<>>
Some(x) == <<x>>
IsNone(o) == o = <<>>
Val(o) == o[1]

Max(a, b) == IF a >= b THEN a ELSE b
Min(a, b) == IF a <= b THEN a ELSE b
Abs(a) == IF a >= 0 THEN a ELSE -a

RECURSIVE SumSeq(_)
SumSeq(s) == IF s = <<>> THEN 0 ELSE Head(s) + SumSeq(Tail(s))

RECURSIVE Pow2(_)
Pow2(n) == IF n <= 0 THEN 1 ELSE 2 * Pow2(n - 1)

RECURSIVE ISqrtBetween(_, _, _)
ISqrtBetween(lo, hi, x) ==
    IF hi - lo <= 1 THEN lo
    ELSE LET mid == (lo + hi) \div 2
         IN  IF mid * mid <= x THEN ISqrtBetween(mid, hi, x)
                               ELSE ISqrtBetween(lo, mid, x)

\* floor of the square root, for 0 <= x < (2 * Scale)^2
ISqrt(x) == ISqrtBetween(0, 2 * Scale, x)

NoMeta == [skills |-> None, education |-> None, experience_years |-> None,
           updated_at |-> None]

---------------------------------------------------------------------------
(* Validation and weights *)

\* _validate_vector: TRUE when the vector passes (a sequence is always
\* one-dimensional), FALSE when it raises ValueError.
_validate_vector(vector) == Len(vector) = EMBEDDING_DIMENSION

\* a bug: the similarity is used as it is
Clip_Not(x) == x

\* np.clip(x, 0.0, 1.0)
Clip(x) == IF x <= 0 THEN 0 ELSE IF x >= Scale THEN Scale ELSE x

\* a bug: negative weights are not raised to 0
_normalise_weights_NoClamp(weights) ==
    LET total == weights.embedding + weights.skills + weights.education
                 + weights.experience + weights.freshness
    IN  IF total = 0
        THEN [num |-> [k \in DOMAIN weights |-> IF k = "embedding" THEN 1 ELSE 0],
              den |-> 1]
        ELSE [num |-> weights, den |-> total]

\* _normalise_weights: the weights as exact fractions num[k] / den.
_normalise_weights(weights) ==
    LET positive_weights == [k \in DOMAIN weights |-> Max(weights[k], 0)]
        total == positive_weights.embedding + positive_weights.skills
                 + positive_weights.education + positive_weights.experience
                 + positive_weights.freshness
    IN  IF total = 0
        THEN [num |-> [k \in DOMAIN weights |-> IF k = "embedding" THEN 1 ELSE 0],
              den |-> 1]
        ELSE [num |-> positive_weights, den |-> total]

---------------------------------------------------------------------------
(* Serialisation and the cache key.  A key is the string the code feeds to
   sha1; a digest is modelled as an injective tagging of its input. *)

Sha1(s) == "sha1(" \o s \o ")"

\* _hash_vector: digest of the float32 bytes of the vector.
_hash_vector(vector) == Sha1(ToString(vector))

\* json.dumps(metadata, sort_keys=True): the present keys, in sorted order.
DumpsMetadata(m) ==
    "{" \o (IF IsNone(m.education) THEN "" ELSE "education:" \o ToString(Val(m.education)) \o ",")
        \o (IF IsNone(m.experience_years) THEN ""
            ELSE "experience_years:" \o ToString(Val(m.experience_years)) \o ",")
        \o (IF IsNone(m.skills) THEN "" ELSE "skills:" \o ToString(Val(m.skills)) \o ",")
        \o (IF IsNone(m.updated_at) THEN "" ELSE "updated_at:" \o ToString(Val(m.updated_at)) \o ",")
        \o "}"

\* _hash_metadata: "0" for None and for the empty dict.
_hash_metadata(metadata) ==
    IF IsNone(metadata) \/ Val(metadata) = NoMeta
    THEN "0"
    ELSE Sha1(DumpsMetadata(Val(metadata)))

\* The place of an option key in the sorted order of the keys.
KeyRank(k) == CASE k = "limit" -> 1 [] k = "min_score" -> 2 [] k = "weights" -> 3

RECURSIVE InsertKey(_, _)
InsertKey(sorted, k) ==
    IF sorted = <<>> THEN <<k>>
    ELSE IF KeyRank(Head(sorted)) <= KeyRank(k)
         THEN <<Head(sorted)>> \o InsertKey(Tail(sorted), k)
         ELSE <<k>> \o sorted

\* a bug: the keys are written in the order of their insertion
SortKeys_AsInserted(order) == order

\* sort_keys=True: the keys of the dict, given in insertion order, sorted
RECURSIVE SortKeys(_)
SortKeys(order) ==
    IF order = <<>> THEN <<>>
    ELSE InsertKey(SortKeys(Tail(order)), Head(order))

RECURSIVE DumpsItems(_, _)
DumpsItems(o, keys) ==
    IF keys = <<>> THEN ""
    ELSE Head(keys) \o ":" \o ToString(Val(o[Head(keys)])) \o "," \o DumpsItems(o, Tail(keys))

\* json.dumps(options or {}, sort_keys=True).  An options dict is the record
\* of its values with `order`, its keys in insertion order.
DumpsOptions(options) ==
    IF IsNone(options) THEN "{}"
    ELSE "{" \o DumpsItems(Val(options), SortKeys(Val(options).order)) \o "}"

\* One job's component: "|".join([id, hash(embedding), hash(metadata)])
JobComponent(job) ==
    job.id \o "|"
    \o _hash_vector(IF IsNone(job.embedding) THEN <<>> ELSE Val(job.embedding))
    \o "|" \o _hash_metadata(job.metadata)

RECURSIVE JoinComponents(_)
JoinComponents(jobs) ==
    IF jobs = <<>> THEN ""
    ELSE "::" \o JobComponent(Head(jobs)) \o JoinComponents(Tail(jobs))

_build_cache_key(graduate_embedding, job_embeddings, graduate_metadata, options) ==
    Sha1(_hash_vector(graduate_embedding)
         \o "::" \o _hash_metadata(graduate_metadata)
         \o "::" \o DumpsOptions(options)
         \o JoinComponents(job_embeddings))

---------------------------------------------------------------------------
(* Factor scorers, in units of 1/Scale *)

\* str.strip().lower() on the strings the model uses.
StripLower(s) ==
    CASE s = "React" -> "react"
      [] s = " react " -> "react"
      [] s = "TypeScript" -> "typescript"
      [] s = "BSc Computer Science" -> "bsc computer science"
      [] s = "BSc" -> "bsc"
      [] s = " " -> ""
      [] OTHER -> s

\* What may surround a substring in the (normalised) strings the model uses.
Affixes == {"", "bsc ", " computer science", " science", "bsc computer "}

\* Python's `a in b` for strings
IsSubstring(a, b) == a = "" \/ \E p \in Affixes, q \in Affixes : p \o a \o q = b

\* a bug: the product is divided by the square of the first norm
cosine_similarity_OneNorm(vec1, vec2) ==
    LET dot_product == SumSeq([i \in 1..Len(vec1) |-> vec1[i] * vec2[i]])
        norm1sq == SumSeq([i \in 1..Len(vec1) |-> vec1[i] * vec1[i]])
        norm2sq == SumSeq([i \in 1..Len(vec2) |-> vec2[i] * vec2[i]])
        magnitude == ISqrt((Scale * Scale * dot_product * dot_product)
                           \div (norm1sq * norm1sq))
    IN  IF norm1sq = 0 \/ norm2sq = 0 THEN 0
        ELSE IF dot_product >= 0 THEN magnitude ELSE -magnitude

\* float(np.linalg.norm(array)) of a float32 array is the float32 nearest to
\* the square root of the squared norm.  For the squared norms of the
\* model's vectors: the roots of 0 and 1 are exact (0), the root of 2 is
\* rounded to 1.41421354, below it (-1).
NormRounding(normsq) == IF normsq = 2 THEN -1 ELSE 0

\* The float that cosine_similarity returns against the exact quotient:
\* equal (0), above (1) or below (-1).  A norm rounded down makes the
\* divisor too small, so the quotient too large in magnitude.
cosine_rounding(vec1, vec2) ==
    LET dot_product == SumSeq([i \in 1..Len(vec1) |-> vec1[i] * vec2[i]])
        norm1sq == SumSeq([i \in 1..Len(vec1) |-> vec1[i] * vec1[i]])
        norm2sq == SumSeq([i \in 1..Len(vec2) |-> vec2[i] * vec2[i]])
    IN  IF norm1sq = 0 \/ norm2sq = 0 THEN 0
        ELSE IF NormRounding(norm1sq) = 0 /\ NormRounding(norm2sq) = 0 THEN 0
        ELSE IF dot_product > 0 THEN 1
        ELSE IF dot_product < 0 THEN -1
        ELSE 0

\* cosine_similarity of two validated vectors, truncated to 1/Scale.
cosine_similarity(vec1, vec2) ==
    LET dot_product == SumSeq([i \in 1..Len(vec1) |-> vec1[i] * vec2[i]])
        norm1sq == SumSeq([i \in 1..Len(vec1) |-> vec1[i] * vec1[i]])
        norm2sq == SumSeq([i \in 1..Len(vec2) |-> vec2[i] * vec2[i]])
        magnitude == ISqrt((Scale * Scale * dot_product * dot_product)
                           \div (norm1sq * norm2sq))
    IN  IF norm1sq = 0 \/ norm2sq = 0 THEN 0
        ELSE IF dot_product >= 0 THEN magnitude ELSE -magnitude

NormSet(skills) == {StripLower(skills[i]) : i \in {j \in 1..Len(skills) : skills[j] # ""}}

_skills_similarity(graduate, job) ==
    IF IsNone(graduate) \/ Val(graduate) = <<>> THEN 0
    ELSE IF IsNone(job) \/ Val(job) = <<>> THEN Scale \div 2
    ELSE LET grad_set == NormSet(Val(graduate))
             job_set == NormSet(Val(job))
         IN  IF grad_set = {} \/ job_set = {} THEN 0
             ELSE (Scale * Cardinality(grad_set \cap job_set))
                  \div Cardinality(grad_set \cup job_set)

\* a bug: the graduate's label is looked at first
_education_similarity_GraduateFirst(graduate, job) ==
    IF IsNone(graduate) \/ Val(graduate) = "" THEN 0
    ELSE IF IsNone(job) \/ Val(job) = "" THEN Scale \div 2
    ELSE LET grad_norm == StripLower(Val(graduate))
             job_norm == StripLower(Val(job))
         IN  IF grad_norm = "" \/ job_norm = "" THEN 0
             ELSE IF grad_norm = job_norm THEN Scale
             ELSE IF IsSubstring(grad_norm, job_norm) \/ IsSubstring(job_norm, grad_norm)
                  THEN (7 * Scale) \div 10
             ELSE 0

_education_similarity(graduate, job) ==
    IF IsNone(job) \/ Val(job) = "" THEN Scale \div 2
    ELSE IF IsNone(graduate) \/ Val(graduate) = "" THEN 0
    ELSE LET grad_norm == StripLower(Val(graduate))
             job_norm == StripLower(Val(job))
         IN  IF grad_norm = "" \/ job_norm = "" THEN 0
             ELSE IF grad_norm = job_norm THEN Scale
             ELSE IF IsSubstring(grad_norm, job_norm) \/ IsSubstring(job_norm, grad_norm)
                  THEN (7 * Scale) \div 10
             ELSE 0

\* a bug: a difference equal to the job's years is let through
_experience_similarity_Strict(graduate_years, job_years) ==
    IF IsNone(job_years) THEN (6 * Scale) \div 10
    ELSE IF IsNone(graduate_years) THEN 0
    ELSE LET diff == Abs(Val(graduate_years) - Val(job_years))
         IN  IF diff > Val(job_years) THEN 0
             ELSE Max(0, Scale - (Scale * diff) \div Max(Val(job_years), YearUnit))

\* _experience_similarity; the years are counted in quarters, so that 1.0 is
\* YearUnit
_experience_similarity(graduate_years, job_years) ==
    IF IsNone(job_years) THEN (6 * Scale) \div 10
    ELSE IF IsNone(graduate_years) THEN 0
    ELSE LET diff == Abs(Val(graduate_years) - Val(job_years))
         IN  IF diff >= Val(job_years) THEN 0
             ELSE Max(0, Scale - (Scale * diff) \div Max(Val(job_years), YearUnit))

\* _freshness_score at clock time t.  updated_at is None, or Some of
\* [ok |-> FALSE, at |-> 0] (a string fromisoformat rejects) or
\* [ok |-> TRUE, at |-> time].
_freshness_score(updated_at, t) ==
    IF IsNone(updated_at) THEN Scale \div 2
    ELSE IF ~Val(updated_at).ok THEN (4 * Scale) \div 10
    ELSE LET age_days == t - Val(updated_at).at
         IN  IF age_days <= 0 THEN Scale
             ELSE IF FRESHNESS_HALF_LIFE_DAYS <= 0 THEN Scale \div 2
             ELSE Clip(Scale \div Pow2(age_days \div FRESHNESS_HALF_LIFE_DAYS))

---------------------------------------------------------------------------
(* Request canonicalisation and options *)

RECURSIVE DedupFrom(_, _)
DedupFrom(job_embeddings, seen) ==
    IF job_embeddings = <<>> THEN <<>>
    ELSE LET job == Head(job_embeddings)
         IN  IF job.id = "" \/ IsNone(job.embedding) \/ job.id \in seen
             THEN DedupFrom(Tail(job_embeddings), seen)
             ELSE <<job>> \o DedupFrom(Tail(job_embeddings), seen \cup {job.id})

\* a bug: a later record of an id is kept
_deduplicate_jobs_KeepRepeats(job_embeddings) ==
    SelectSeq(job_embeddings, LAMBDA job : job.id # "" /\ ~IsNone(job.embedding))

\* _deduplicate_jobs.  An id of "" stands for a missing or empty id.
_deduplicate_jobs(job_embeddings) == DedupFrom(job_embeddings, {})

\* DEFAULT_WEIGHTS.copy() updated with the override, a function on some factors
MergeWeights(override) ==
    [k \in Factors |-> IF k \in DOMAIN override THEN override[k] ELSE DEFAULT_WEIGHTS[k]]

\* a bug: min_score and limit are used as given
_prepare_options_Unclamped(options) ==
    LET given == ~IsNone(options) /\ Val(options).order # <<>>
        min_score == IF given /\ ~IsNone(Val(options).min_score)
                     THEN Val(Val(options).min_score) ELSE DEFAULT_MIN_SCORE
        limit == IF given /\ ~IsNone(Val(options).limit)
                 THEN Val(Val(options).limit) ELSE DEFAULT_MAX_RESULTS
        weights_input == IF given /\ ~IsNone(Val(options).weights)
                            /\ DOMAIN Val(Val(options).weights) # {}
                         THEN MergeWeights(Val(Val(options).weights))
                         ELSE DEFAULT_WEIGHTS
    IN  [min_score |-> min_score, limit |-> limit,
         weights |-> _normalise_weights(weights_input)]

\* _prepare_options: [min_score, limit, weights]
_prepare_options(options) ==
    LET given == ~IsNone(options) /\ Val(options).order # <<>>
        min_score == IF given /\ ~IsNone(Val(options).min_score)
                     THEN Val(Val(options).min_score) ELSE DEFAULT_MIN_SCORE
        limit == IF given /\ ~IsNone(Val(options).limit)
                 THEN Val(Val(options).limit) ELSE DEFAULT_MAX_RESULTS
        weights_input == IF given /\ ~IsNone(Val(options).weights)
                            /\ DOMAIN Val(Val(options).weights) # {}
                         THEN MergeWeights(Val(Val(options).weights))
                         ELSE DEFAULT_WEIGHTS
    IN  [min_score |-> Max(0, Min(min_score, Scale * Fine)),
         limit |-> Max(1, limit),
         weights |-> _normalise_weights(weights_input)]

---------------------------------------------------------------------------
(* Scoring, ranking *)

\* round(n / d, 4) in units of 1/Scale, n and d in the same unit
RoundDiv(n, d) == (2 * n + d) \div (2 * d)

\* One iteration of the scoring loop (matcher.py:345-379) for a job whose
\* embedding is valid: the factor scores, the combined score as the fraction
\* num / den, and the MatchResult.
ScoreJob(graduate_embedding, graduate_metadata, job, weights, t) ==
    LET gm == IF IsNone(graduate_metadata) THEN NoMeta ELSE Val(graduate_metadata)
        metadata == IF IsNone(job.metadata) THEN NoMeta ELSE Val(job.metadata)
        embedding_score == Clip(cosine_similarity(graduate_embedding, Val(job.embedding)))
        skills_score == _skills_similarity(gm.skills, metadata.skills)
        education_score == _education_similarity(gm.education, metadata.education)
        experience_score == _experience_similarity(gm.experience_years,
                                                   metadata.experience_years)
        freshness == _freshness_score(metadata.updated_at, t)
        num == embedding_score * weights.num.embedding
               + skills_score * weights.num.skills
               + education_score * weights.num.education
               + experience_score * weights.num.experience
               + freshness * weights.num.freshness
    IN  [num |-> num,
         den |-> weights.den,
         match_result |->
            [id |-> job.id,
             score |-> RoundDiv(num, weights.den),
             factors |-> [embedding |-> embedding_score, skills |-> skills_score,
                          education |-> education_score,
                          experience |-> experience_score,
                          freshness |-> freshness]]]

\* a bug: the rounded score is compared with min_score
RECURSIVE ScoreLoop_Rounded(_, _, _, _, _)
ScoreLoop_Rounded(graduate_embedding, graduate_metadata, jobs, opts, t) ==
    IF jobs = <<>> THEN <<>>
    ELSE LET s == ScoreJob(graduate_embedding, graduate_metadata, Head(jobs),
                           opts.weights, t)
             rest == ScoreLoop_Rounded(graduate_embedding, graduate_metadata,
                                       Tail(jobs), opts, t)
         IN  IF s.match_result.score * Fine < opts.min_score THEN rest
             ELSE <<s.match_result>> \o rest

\* The loop: the results appended, in job order, for the jobs whose combined
\* score is not below min_score.
RECURSIVE ScoreLoop(_, _, _, _, _)
ScoreLoop(graduate_embedding, graduate_metadata, jobs, opts, t) ==
    IF jobs = <<>> THEN <<>>
    ELSE LET s == ScoreJob(graduate_embedding, graduate_metadata, Head(jobs),
                           opts.weights, t)
             rest == ScoreLoop(graduate_embedding, graduate_metadata, Tail(jobs), opts, t)
         IN  IF s.num * Fine < opts.min_score * s.den THEN rest
             ELSE <<s.match_result>> \o rest

\* a bug: an item is put before the items of equal score
RECURSIVE InsertDesc_Unstable(_, _)
InsertDesc_Unstable(sorted, item) ==
    IF sorted = <<>> THEN <<item>>
    ELSE IF Head(sorted).score > item.score
         THEN <<Head(sorted)>> \o InsertDesc_Unstable(Tail(sorted), item)
         ELSE <<item>> \o sorted

\* list.sort(key=score, reverse=True): stable, descending
RECURSIVE InsertDesc(_, _)
InsertDesc(sorted, item) ==
    IF sorted = <<>> THEN <<item>>
    ELSE IF Head(sorted).score >= item.score
         THEN <<Head(sorted)>> \o InsertDesc(Tail(sorted), item)
         ELSE <<item>> \o sorted

\* a bug: the results are left in the order of the jobs
SortDesc_Not(items) == items

RECURSIVE SortDesc(_)
SortDesc(items) ==
    IF items = <<>> THEN <<>>
    ELSE InsertDesc(SortDesc(SubSeq(items, 1, Len(items) - 1)), items[Len(items)])

\* a bug: the last elements are kept
Truncate_Last(items, limit) ==
    SubSeq(items, Len(items) - Min(limit, Len(items)) + 1, Len(items))

\* results[:limit], for limit >= 1
Truncate(items, limit) == SubSeq(items, 1, Min(limit, Len(items)))

\* matcher.py:324-384 on a cache miss: TRUE when some job's embedding fails
\* _validate_vector inside cosine_similarity, so that the call raises.
ScoringRaises(jobs) == \E i \in 1..Len(jobs) : ~_validate_vector(Val(jobs[i].embedding))

\* matcher.py:324-384 on a cache miss, when nothing raises: the ranked list.
RankedResults(graduate_embedding, graduate_metadata, jobs, options, t) ==
    LET opts == _prepare_options(options)
    IN  Truncate(SortDesc(ScoreLoop(graduate_embedding, graduate_metadata, jobs, opts, t)),
                 opts.limit)

---------------------------------------------------------------------------
(* The arguments the callers pass.  A request is the four arguments of
   compute_matches; a job payload is [id, embedding, metadata]. *)

GradMeta ==
    Some([skills |-> Some(<<"React", "TypeScript">>),
          education |-> Some("BSc Computer Science"),
          experience_years |-> Some(2 * YearUnit),
          updated_at |-> None])

Job1 == [id |-> "job-1", embedding |-> Some(<<1, 1>>),
         metadata |-> Some([skills |-> Some(<<"react", "typescript">>),
                            education |-> Some("BSc Computer Science"),
                            experience_years |-> Some(3 * YearUnit),
                            updated_at |-> Some([ok |-> TRUE, at |-> 1])])]

Job2 == [id |-> "job-2", embedding |-> Some(<<0, 0>>),
         metadata |-> Some([skills |-> Some(<<"go">>), education |-> None,
                            experience_years |-> None, updated_at |-> None])]

\* a later record with the id of Job1 and an embedding of the wrong length
Job1Again == [id |-> "job-1", embedding |-> Some(<<1>>), metadata |-> None]

Job3 == [id |-> "job-3", embedding |-> Some(<<1, 1>>), metadata |-> None]

\* records without an id, without an embedding
JobNoId == [id |-> "", embedding |-> Some(<<1, 0>>), metadata |-> None]
JobNoEmbedding == [id |-> "job-4", embedding |-> None, metadata |-> None]

\* a record whose embedding has the wrong length, and a valid one after it
JobX == [id |-> "x", embedding |-> Some(<<1>>), metadata |-> None]
JobY == [id |-> "y", embedding |-> Some(<<1, 1>>), metadata |-> None]

\* one valid record whose id spells the component of JobX and the separator
JobXY == [id |-> "x|" \o _hash_vector(<<1>>) \o "|0::y",
          embedding |-> Some(<<1, 1>>), metadata |-> None]

\* an options dict with the given keys, inserted in the given order
OptionsIn(order, min_score, limit, weights) ==
    Some([order |-> order, min_score |-> min_score, limit |-> limit, weights |-> weights])

\* the same, the keys inserted in the order min_score, limit, weights
Options(min_score, limit, weights) ==
    OptionsIn(SelectSeq(<<"min_score", "limit", "weights">>,
                        LAMBDA k : ~IsNone([min_score |-> min_score, limit |-> limit,
                                             weights |-> weights][k])),
              min_score, limit, weights)

Request(g, jobs, gm, o) ==
    [graduate_embedding |-> g, job_embeddings |-> jobs,
     graduate_metadata |-> gm, options |-> o]

Requests ==
    << Request(<<1, 1>>, <<Job1, Job2, Job1Again>>, GradMeta, Options(Some(0), Some(5), None)),
       Request(<<1, 1>>, <<Job2>>, GradMeta, None),
       Request(<<1, 1>>, <<JobNoId, JobNoEmbedding>>, None, None),
       Request(<<1>>, <<Job3>>, None, None),
       Request(<<1, 1>>, <<JobX, JobY>>, None, None),
       Request(<<1, 1>>, <<JobXY>>, None, None) >>

RequestIds == 1..Len(Requests)

\* the key compute_matches builds for request r (matcher.py:317)
KeyOf(r) ==
    _build_cache_key(Requests[r].graduate_embedding,
                     _deduplicate_jobs(Requests[r].job_embeddings),
                     Requests[r].graduate_metadata, Requests[r].options)

---------------------------------------------------------------------------
(* The OrderedDict _cache: a sequence of [key, value, expires_at], in
   recency order (first = next to be popped by popitem(last=False)). *)

CacheKeys(c) == {c[i].key : i \in 1..Len(c)}

KeySeq(c) == [i \in 1..Len(c) |-> c[i].key]

\* a bug: the oldest entry is taken for the entry of the key
CacheGet_First(c, key) == c[1]

\* _cache.get(key): the entry, for a key that is present
CacheGet(c, key) == c[CHOOSE i \in 1..Len(c) : c[i].key = key]

Without(seq, key) == SelectSeq(seq, LAMBDA e : e.key # key)

\* _cache.pop(key, None)
CachePop(c, key) == Without(c, key)

\* _cache.move_to_end(key), for a key that is present
MoveToEnd(c, key) == Without(c, key) \o <<CacheGet(c, key)>>

\* a bug: a second entry is added for a key that is present
SetItem_Duplicate(c, key, entry) == Append(c, entry)

\* _cache[key] = entry: in place when the key is present, appended otherwise
SetItem(c, key, entry) ==
    IF key \in CacheKeys(c)
    THEN [i \in 1..Len(c) |-> IF c[i].key = key THEN entry ELSE c[i]]
    ELSE Append(c, entry)

\* a bug: popitem() takes the newest entry
PopItemFirst_Last(c) == SubSeq(c, 1, Len(c) - 1)

\* _cache.popitem(last=False)
PopItemFirst(c) == Tail(c)

---------------------------------------------------------------------------
(* Steps of _get_from_cache and _set_cache *)

\* a bug: entries never expire
IsExpired_Never(entry, t) == FALSE

\* a bug: an entry lives one tick longer
IsExpired_Late(entry, t) == entry.expires_at + 1 < t

\* matcher.py:172
IsExpired(entry, t) == entry.expires_at < t

\* a bug: a hit leaves the entry where it is
CacheAfterHit_NoMove(c, key) == c

\* a bug: a hit renews the expiry of the entry
CacheAfterHit_Renew(c, key) ==
    Without(c, key)
    \o <<[CacheGet(c, key) EXCEPT !.expires_at = now + MATCH_CACHE_TTL_SECONDS]>>

\* matcher.py:176, a hit
CacheAfterHit(c, key) == MoveToEnd(c, key)

\* matcher.py:184-186
NewEntry(key, value, t) ==
    [key |-> key, value |-> value, expires_at |-> t + MATCH_CACHE_TTL_SECONDS]

\* a bug: no move_to_end before the assignment
CacheAfterInsert_InPlace(c, key, value, t) == SetItem(c, key, NewEntry(key, value, t))

\* matcher.py:182-186
CacheAfterInsert(c, key, value, t) ==
    SetItem(IF key \in CacheKeys(c) THEN MoveToEnd(c, key) ELSE c,
            key, NewEntry(key, value, t))

\* a bug: the loop stops one entry early
OverCapacity_OffByOne(c, max_entries) == Len(c) > max_entries + 1

\* matcher.py:188, the loop condition
OverCapacity(c, max_entries) == Len(c) > max_entries

\* a bug: the lock is taken without looking
LockFree_Always(holder, waiters) == TRUE

\* asyncio.Lock.acquire takes the lock at once only when it is free and
\* nobody is queued for it
LockFree(holder, waiters) == holder = NoTask /\ waiters = <<>>

\* a bug: no early return
NoJobs_Never(jobs) == FALSE

\* matcher.py:314
NoJobs(jobs) == jobs = <<>>

---------------------------------------------------------------------------
(* History.  lru is the cache as its contract describes it: one record
   [key, value, stored_at] per key in use, ordered by the latest use of the
   key (a use is a hit or a write), with the list and the time of the latest
   write.  It is updated from the events alone, never from the code's
   ordering: a write or a hit makes the key the most recently used, and a
   key the code drops leaves. *)

LruWrite(h, key, value, t) ==
    SelectSeq(h, LAMBDA e : e.key # key) \o <<[key |-> key, value |-> value, stored_at |-> t]>>

LruHit(h, key) ==
    SelectSeq(h, LAMBDA e : e.key # key) \o SelectSeq(h, LAMBDA e : e.key = key)

LruKeep(h, keys) == SelectSeq(h, LAMBDA e : e.key \in keys)

LruKeys(h) == {h[i].key : i \in 1..Len(h)}

LruOf(h, key) == h[CHOOSE i \in 1..Len(h) : h[i].key = key]

---------------------------------------------------------------------------
(* The state machine *)

\* what a call did so far: hit (served from the cache), expired (its read
\* dropped an expired entry), replaced (its write found the key in use), reads
\* and writes of the cache, jobs scored, entries evicted by its write, and
\* aged (on a hit: the served list was stored before the clock last moved).
NewNote == [hit |-> FALSE, expired |-> FALSE, replaced |-> FALSE, aged |-> FALSE,
            reads |-> 0, writes |-> 0, scored |-> 0, evicted |-> 0]

\* no function is applied on its own
NoFn == [kind |-> "none", stage |-> "none"]

Init ==
    /\ MATCH_CACHE_MAX_ENTRIES \in 0..MaxEntries
    /\ now = 0
    /\ _cache = <<>>
    /\ lock_holder = NoTask
    /\ lock_waiters = <<>>
    /\ pc = [t \in Tasks |-> "idle"]
    /\ req = [t \in Tasks |-> 0]
    /\ cache_key = [t \in Tasks |-> ""]
    /\ results = [t \in Tasks |-> <<>>]
    /\ note = [t \in Tasks |-> NewNote]
    /\ lru = <<>>
    /\ fn = NoFn

\* a bug: a task that finds the lock taken waits without queueing for it
Acquire_NotQueued(t, body, wait) ==
    IF LockFree(lock_holder, lock_waiters)
    THEN /\ lock_holder' = t
         /\ pc' = [pc EXCEPT ![t] = body]
         /\ UNCHANGED lock_waiters
    ELSE /\ pc' = [pc EXCEPT ![t] = wait]
         /\ UNCHANGED <<lock_holder, lock_waiters>>

\* `async with _cache_lock` (matcher.py:166, 181): the task takes the lock
\* and enters the body, or queues and waits
Acquire(t, body, wait) ==
    IF LockFree(lock_holder, lock_waiters)
    THEN /\ lock_holder' = t
         /\ pc' = [pc EXCEPT ![t] = body]
         /\ UNCHANGED lock_waiters
    ELSE /\ lock_waiters' = Append(lock_waiters, t)
         /\ pc' = [pc EXCEPT ![t] = wait]
         /\ UNCHANGED lock_holder

\* compute_matches, matcher.py:311-320: up to the lock of _get_from_cache
Call(t, r) ==
    /\ pc[t] = "idle"
    /\ req' = [req EXCEPT ![t] = r]
    /\ LET a == Requests[r]
           jobs == _deduplicate_jobs(a.job_embeddings)
       IN  IF ~_validate_vector(a.graduate_embedding)
           THEN /\ pc' = [pc EXCEPT ![t] = "raised"]
                /\ UNCHANGED <<cache_key, results, lock_holder, lock_waiters>>
           ELSE IF NoJobs(jobs)
           THEN /\ pc' = [pc EXCEPT ![t] = "done"]
                /\ results' = [results EXCEPT ![t] = <<>>]
                /\ UNCHANGED <<cache_key, lock_holder, lock_waiters>>
           ELSE /\ cache_key' = [cache_key EXCEPT ![t] =
                       _build_cache_key(a.graduate_embedding, jobs,
                                        a.graduate_metadata, a.options)]
                /\ Acquire(t, "get_body", "get_wait")
                /\ UNCHANGED results
    /\ UNCHANGED <<fn, MATCH_CACHE_MAX_ENTRIES, now, _cache, note, lru>>

\* the first queued task is woken by release() and takes the lock
Wake(t) ==
    /\ pc[t] \in {"get_wait", "set_wait"}
    /\ lock_holder = NoTask
    /\ lock_waiters # <<>> /\ Head(lock_waiters) = t
    /\ lock_holder' = t
    /\ lock_waiters' = Tail(lock_waiters)
    /\ pc' = [pc EXCEPT ![t] = IF pc[t] = "get_wait" THEN "get_body" ELSE "set_body"]
    /\ UNCHANGED <<fn, MATCH_CACHE_MAX_ENTRIES, now, _cache, req, cache_key, results,
                   note, lru>>

\* a bug: `if cached:`, which an empty list fails
IsCached_Truthy(cached) == ~IsNone(cached) /\ Val(cached) # <<>>

\* `if cached is not None` (matcher.py:321)
IsCached(cached) == ~IsNone(cached)

\* _get_from_cache, matcher.py:167-177, and compute_matches:320-322.  An
\* entry is a _CacheEntry, which `if not entry` takes for present whatever
\* its value; the function returns the value of an unexpired entry, or None.
GetFromCache(t) ==
    /\ pc[t] = "get_body"
    /\ lock_holder' = NoTask
    /\ LET key == cache_key[t]
           present == key \in CacheKeys(_cache)
           expired == present /\ IsExpired(CacheGet(_cache, key), now)
           cached == IF present /\ ~expired
                     THEN Some(CacheGet(_cache, key).value) ELSE None
       IN  /\ _cache' = IF ~present THEN _cache
                         ELSE IF expired THEN CachePop(_cache, key)
                         ELSE CacheAfterHit(_cache, key)
           /\ lru' = IF ~present THEN lru
                      ELSE IF expired THEN LruKeep(lru, CacheKeys(_cache'))
                      ELSE LruHit(lru, key)
           /\ IF IsCached(cached)
              THEN /\ results' = [results EXCEPT ![t] = Val(cached)]
                   /\ pc' = [pc EXCEPT ![t] = "done"]
                   /\ note' = [note EXCEPT ![t].reads = @ + 1, ![t].hit = TRUE,
                                           ![t].aged = /\ key \in LruKeys(lru)
                                                       /\ LruOf(lru, key).stored_at < now]
              ELSE /\ pc' = [pc EXCEPT ![t] = "compute"]
                   /\ UNCHANGED results
                   /\ note' = [note EXCEPT ![t].reads = @ + 1,
                                           ![t].expired = expired]
    /\ UNCHANGED <<fn, MATCH_CACHE_MAX_ENTRIES, now, lock_waiters, req, cache_key>>

\* what compute_matches, matcher.py:324-384, makes of request r at time n
\* (nothing when the validation raises), tabulated
RankedOf ==
    [r \in RequestIds, n \in 0..MaxTime |->
        LET a == Requests[r]
            jobs == _deduplicate_jobs(a.job_embeddings)
        IN  IF ~_validate_vector(a.graduate_embedding) \/ ScoringRaises(jobs)
            THEN <<>>
            ELSE RankedResults(a.graduate_embedding, a.graduate_metadata,
                               jobs, a.options, n)]

\* compute_matches, matcher.py:324-386: score, filter, sort, truncate, up to
\* the lock of _set_cache
Compute(t) ==
    /\ pc[t] = "compute"
    /\ LET a == Requests[req[t]]
           jobs == _deduplicate_jobs(a.job_embeddings)
       IN  IF ScoringRaises(jobs)
           THEN /\ pc' = [pc EXCEPT ![t] = "raised"]
                /\ UNCHANGED <<results, lock_holder, lock_waiters>>
                /\ note' = [note EXCEPT ![t].scored =
                       (CHOOSE i \in 1..Len(jobs) :
                           /\ ~_validate_vector(Val(jobs[i].embedding))
                           /\ \A j \in 1..(i - 1) : _validate_vector(Val(jobs[j].embedding)))
                       - 1]
           ELSE /\ results' = [results EXCEPT ![t] =
                       RankedOf[req[t], now]]
                /\ Acquire(t, "set_body", "set_wait")
                /\ note' = [note EXCEPT ![t].scored = Len(jobs)]
    /\ UNCHANGED <<fn, MATCH_CACHE_MAX_ENTRIES, now, _cache, req, cache_key, lru>>

\* _set_cache, matcher.py:182-186
SetInsert(t) ==
    /\ pc[t] = "set_body"
    /\ _cache' = CacheAfterInsert(_cache, cache_key[t], results[t], now)
    /\ pc' = [pc EXCEPT ![t] = "set_evict"]
    /\ lru' = LruWrite(lru, cache_key[t], results[t], now)
    /\ note' = [note EXCEPT ![t].writes = @ + 1,
                            ![t].replaced = cache_key[t] \in LruKeys(lru)]
    /\ UNCHANGED <<fn, MATCH_CACHE_MAX_ENTRIES, now, lock_holder, lock_waiters,
                   req, cache_key, results>>

\* _set_cache, matcher.py:188-189: one iteration of the eviction loop
SetEvict(t) ==
    /\ pc[t] = "set_evict"
    /\ OverCapacity(_cache, MATCH_CACHE_MAX_ENTRIES)
    /\ _cache' = PopItemFirst(_cache)
    /\ lru' = LruKeep(lru, CacheKeys(_cache'))
    /\ note' = [note EXCEPT ![t].evicted = @ + 1]
    /\ UNCHANGED <<fn, MATCH_CACHE_MAX_ENTRIES, now, lock_holder, lock_waiters, pc,
                   req, cache_key, results>>

\* _set_cache: the loop ends, the lock is released; compute_matches:387
SetDone(t) ==
    /\ pc[t] = "set_evict"
    /\ ~OverCapacity(_cache, MATCH_CACHE_MAX_ENTRIES)
    /\ lock_holder' = NoTask
    /\ pc' = [pc EXCEPT ![t] = "done"]
    /\ UNCHANGED <<fn, MATCH_CACHE_MAX_ENTRIES, now, _cache, lock_waiters,
                   req, cache_key, results, note, lru>>

\* the caller takes the result (or the exception); the task may call again
Return(t) ==
    /\ pc[t] \in {"done", "raised"}
    /\ pc' = [pc EXCEPT ![t] = "idle"]
    /\ req' = [req EXCEPT ![t] = 0]
    /\ cache_key' = [cache_key EXCEPT ![t] = ""]
    /\ results' = [results EXCEPT ![t] = <<>>]
    /\ note' = [note EXCEPT ![t] = NewNote]
    /\ UNCHANGED <<fn, MATCH_CACHE_MAX_ENTRIES, now, _cache, lock_holder, lock_waiters, lru>>

\* time passes
Tick ==
    /\ now < MaxTime
    /\ now' = now + 1
    /\ UNCHANGED <<fn, MATCH_CACHE_MAX_ENTRIES, _cache, lock_holder, lock_waiters,
                   pc, req, cache_key, results, note, lru>>

Next ==
    \/ \E t \in Tasks, r \in RequestIds : Call(t, r)
    \/ \E t \in Tasks : Wake(t)
    \/ \E t \in Tasks : GetFromCache(t)
    \/ \E t \in Tasks : Compute(t)
    \/ \E t \in Tasks : SetInsert(t)
    \/ \E t \in Tasks : SetEvict(t)
    \/ \E t \in Tasks : SetDone(t)
    \/ \E t \in Tasks : Return(t)
    \/ Tick

Spec == Init /\ [][Next]_vars

(* The calls one after the other: a call starts only when no other call is
   under way.  This is the schedule of a single event loop, where a call that
   finds the lock free never suspends. *)

SeqCall(t, r) ==
    /\ \A u \in Tasks \ {t} : pc[u] \in {"idle", "done", "raised"}
    /\ Call(t, r)

SeqNext ==
    \/ \E t \in Tasks, r \in RequestIds : SeqCall(t, r)
    \/ \E t \in Tasks : GetFromCache(t)
    \/ \E t \in Tasks : Compute(t)
    \/ \E t \in Tasks : SetInsert(t)
    \/ \E t \in Tasks : SetEvict(t)
    \/ \E t \in Tasks : SetDone(t)
    \/ \E t \in Tasks : Return(t)
    \/ Tick

SeqSpec == Init /\ [][SeqNext]_vars

(* Fair scheduling: the event loop runs every task that is ready.  A step of
   a call under way (woken with the lock, the body of a cache operation, the
   scoring, the eviction loop) is taken if it stays possible.  Nothing
   obliges a caller to call, to pick up its result, or the clock to move. *)

Step(t) ==
    \/ Wake(t)
    \/ GetFromCache(t)
    \/ Compute(t)
    \/ SetInsert(t)
    \/ SetEvict(t)
    \/ SetDone(t)

FairSpec == Spec /\ \A t \in Tasks : WF_vars(Step(t))

---------------------------------------------------------------------------
(* The functions applied on their own.  fn holds an input, drawn in the
   initial state, and what the steps of compute_matches on a miss (or
   _prepare_options, or one scorer) make of it; the cache is not used. *)

\* a record with the id of Job3 and no embedding
Job3NoEmbedding == [id |-> "job-3", embedding |-> None, metadata |-> None]

\* a record whose embedding points away from the graduate's
JobOpposite == [id |-> "job-5", embedding |-> Some(<<-1, -1>>), metadata |-> None]

\* a record without an id whose embedding has the wrong length
JobNoIdShort == [id |-> "", embedding |-> Some(<<1>>), metadata |-> None]

JobPool ==
    {Job1, Job2, Job1Again, Job3, JobY, JobNoId, Job3NoEmbedding, JobOpposite,
     JobNoIdShort}

\* the job lists of at most MaxJobs records of the pool
JobLists == UNION {[1..n -> JobPool] : n \in 0..MaxJobs}

SkewedWeights ==
    [embedding |-> 1, skills |-> 2, education |-> 0, experience |-> 0, freshness |-> 0]

\* weights under which the skills hardly count and the embedding little
LopsidedWeights ==
    [embedding |-> 1000, skills |-> 1, education |-> 0, experience |-> 0,
     freshness |-> 9000]

\* options: absent, in range, out of range, with a min_score between two
\* score units, with the keys inserted in another order, with weights that
\* bring two combined scores within one score unit
OptionPool ==
    { None,
      Options(Some(0), Some(5), Some(LopsidedWeights)),
      Options(Some(0), Some(5), None),
      Options(Some(0 - Scale * Fine), Some(0), None),
      Options(Some(33333), Some(2), Some(SkewedWeights)),
      Options(Some(2 * Scale * Fine), Some(-3), None),
      OptionsIn(<<"limit", "min_score">>, Some(0), Some(2), None),
      Options(None, Some(1), None) }

RequestInputs ==
    { [kind |-> "request", stage |-> "drawn",
       input |-> Request(<<1, 1>>, jobs, gm, o),
       jobs |-> <<>>, key |-> "", opts |-> <<>>, scored |-> <<>>, results |-> <<>>] :
      jobs \in JobLists, gm \in {None, GradMeta}, o \in OptionPool }

\* weights overrides: any of the five factors, each negative, zero or positive
WeightValues == {-1, 0, 2}

WeightInputs ==
    { [kind |-> "weights", stage |-> "drawn", input |-> w, out |-> <<>>] :
      w \in UNION {[D -> WeightValues] : D \in SUBSET Factors} }

\* skill lists: absent, empty, of empty or blank strings, in either case
SkillLists ==
    { None, Some(<<>>), Some(<<"">>), Some(<<" ">>),
      Some(<<"React", "TypeScript">>), Some(<<"react", "typescript">>),
      Some(<<" react ", "">>), Some(<<"go">>), Some(<<"react", "go">>) }

SkillsInputs ==
    { [kind |-> "skills", stage |-> "drawn", input |-> [graduate |-> g, job |-> j],
       out |-> 0] :
      g \in SkillLists, j \in SkillLists }

\* education labels: absent, empty, blank, equal up to case, one within the
\* other, unrelated
EducationLabels ==
    { None, Some(""), Some(" "), Some("BSc Computer Science"),
      Some("bsc computer science"), Some("BSc"), Some("msc") }

EducationInputs ==
    { [kind |-> "education", stage |-> "drawn", input |-> [graduate |-> g, job |-> j],
       out |-> 0] :
      g \in EducationLabels, j \in EducationLabels }

\* years of experience, in quarters: absent, none, below one year, one year
\* and more; a job may carry a negative number
YearsValues == {None, Some(0), Some(1), Some(2), Some(YearUnit), Some(2 * YearUnit),
                Some(3 * YearUnit), Some(6 * YearUnit)}

ExperienceInputs ==
    { [kind |-> "experience", stage |-> "drawn", input |-> [graduate |-> g, job |-> j],
       out |-> 0] :
      g \in YearsValues, j \in YearsValues \cup {Some(0 - YearUnit)} }

\* the valid embeddings with components -1, 0, 1
Embeddings == [1..EMBEDDING_DIMENSION -> {-1, 0, 1}]

\* out: the exact quotient truncated to 1/Scale and the rounding of the
\* float against it, for (vec1, vec2); back: the same for (vec2, vec1)
CosineInputs ==
    { [kind |-> "cosine", stage |-> "drawn", input |-> [vec1 |-> a, vec2 |-> b],
       out |-> <<>>, back |-> <<>>] :
      a \in Embeddings, b \in Embeddings }

FnInit ==
    /\ fn \in RequestInputs \cup WeightInputs \cup SkillsInputs \cup EducationInputs
             \cup ExperienceInputs \cup CosineInputs
    /\ now \in 0..MaxTime
    /\ MATCH_CACHE_MAX_ENTRIES = MaxEntries
    /\ _cache = <<>>
    /\ lock_holder = NoTask
    /\ lock_waiters = <<>>
    /\ pc = [t \in Tasks |-> "idle"]
    /\ req = [t \in Tasks |-> 0]
    /\ cache_key = [t \in Tasks |-> ""]
    /\ results = [t \in Tasks |-> <<>>]
    /\ note = [t \in Tasks |-> NewNote]
    /\ lru = <<>>

\* compute_matches, matcher.py:311-319: validation, deduplication, the key
FnDeduplicate ==
    /\ fn.kind = "request" /\ fn.stage = "drawn"
    /\ LET a == fn.input
           jobs == _deduplicate_jobs(a.job_embeddings)
       IN  IF ~_validate_vector(a.graduate_embedding)
           THEN fn' = [fn EXCEPT !.stage = "raised"]
           ELSE IF NoJobs(jobs)
           THEN fn' = [fn EXCEPT !.stage = "returned"]
           ELSE fn' = [fn EXCEPT !.stage = "deduplicated", !.jobs = jobs,
                                 !.key = _build_cache_key(a.graduate_embedding, jobs,
                                                          a.graduate_metadata, a.options)]
    /\ UNCHANGED <<MATCH_CACHE_MAX_ENTRIES, now, _cache, lock_holder, lock_waiters,
                   pc, req, cache_key, results, note, lru>>

\* compute_matches, matcher.py:324-380: the options, the scoring loop
FnScore ==
    /\ fn.kind = "request" /\ fn.stage = "deduplicated"
    /\ LET a == fn.input
           opts == _prepare_options(a.options)
       IN  IF ScoringRaises(fn.jobs)
           THEN fn' = [fn EXCEPT !.stage = "raised"]
           ELSE fn' = [fn EXCEPT !.stage = "scored", !.opts = opts,
                                 !.scored = ScoreLoop(a.graduate_embedding,
                                                      a.graduate_metadata, fn.jobs, opts, now)]
    /\ UNCHANGED <<MATCH_CACHE_MAX_ENTRIES, now, _cache, lock_holder, lock_waiters,
                   pc, req, cache_key, results, note, lru>>

\* compute_matches, matcher.py:382-384: sort, truncate
FnRank ==
    /\ fn.kind = "request" /\ fn.stage = "scored"
    /\ LET a == fn.input
       IN  fn' = [fn EXCEPT !.stage = "ranked",
                            !.results = RankedResults(a.graduate_embedding,
                                                      a.graduate_metadata, fn.jobs,
                                                      a.options, now)]
    /\ UNCHANGED <<MATCH_CACHE_MAX_ENTRIES, now, _cache, lock_holder, lock_waiters,
                   pc, req, cache_key, results, note, lru>>

\* _prepare_options on options that hold a weights override only
FnWeights ==
    /\ fn.kind = "weights" /\ fn.stage = "drawn"
    /\ fn' = [fn EXCEPT !.stage = "applied",
                        !.out = _prepare_options(Options(None, None, Some(fn.input))).weights]
    /\ UNCHANGED <<MATCH_CACHE_MAX_ENTRIES, now, _cache, lock_holder, lock_waiters,
                   pc, req, cache_key, results, note, lru>>

\* _skills_similarity
FnSkills ==
    /\ fn.kind = "skills" /\ fn.stage = "drawn"
    /\ fn' = [fn EXCEPT !.stage = "applied",
                        !.out = _skills_similarity(fn.input.graduate, fn.input.job)]
    /\ UNCHANGED <<MATCH_CACHE_MAX_ENTRIES, now, _cache, lock_holder, lock_waiters,
                   pc, req, cache_key, results, note, lru>>

\* _education_similarity
FnEducation ==
    /\ fn.kind = "education" /\ fn.stage = "drawn"
    /\ fn' = [fn EXCEPT !.stage = "applied",
                        !.out = _education_similarity(fn.input.graduate, fn.input.job)]
    /\ UNCHANGED <<MATCH_CACHE_MAX_ENTRIES, now, _cache, lock_holder, lock_waiters,
                   pc, req, cache_key, results, note, lru>>

\* _experience_similarity
FnExperience ==
    /\ fn.kind = "experience" /\ fn.stage = "drawn"
    /\ fn' = [fn EXCEPT !.stage = "applied",
                        !.out = _experience_similarity(fn.input.graduate, fn.input.job)]
    /\ UNCHANGED <<MATCH_CACHE_MAX_ENTRIES, now, _cache, lock_holder, lock_waiters,
                   pc, req, cache_key, results, note, lru>>

\* cosine_similarity, on the pair and on the pair swapped
FnCosine ==
    /\ fn.kind = "cosine" /\ fn.stage = "drawn"
    /\ LET a == fn.input.vec1
           b == fn.input.vec2
       IN  fn' = [fn EXCEPT !.stage = "applied",
                            !.out = [near |-> cosine_similarity(a, b),
                                     rounding |-> cosine_rounding(a, b)],
                            !.back = [near |-> cosine_similarity(b, a),
                                      rounding |-> cosine_rounding(b, a)]]
    /\ UNCHANGED <<MATCH_CACHE_MAX_ENTRIES, now, _cache, lock_holder, lock_waiters,
                   pc, req, cache_key, results, note, lru>>

FnNext ==
    \/ FnDeduplicate
    \/ FnScore
    \/ FnRank
    \/ FnWeights
    \/ FnSkills
    \/ FnEducation
    \/ FnExperience
    \/ FnCosine

FnSpec == FnInit /\ [][FnNext]_vars

---------------------------------------------------------------------------
(* The embedding batch (src/ai-service/app/embeddings.py).  fn holds the
   embedding cache of the module (embeddings._cache, an OrderedDict kept by
   the same code as the match cache, with its own TTL and capacity) and the
   call under way: its texts, the prepared texts, the index of the next
   lookup, results, pending_map as a sequence of [text, indices] in
   insertion order, and as history the chunks sent to the provider and the
   indices served from the cache.  The calls follow one another. *)

\* _normalise_text on the texts the model uses
_normalise_text(text) ==
    CASE text = " hello " -> "hello"
      [] text = " " -> ""
      [] OTHER -> text

_hash_text(text) == "sha256(" \o text \o ")"

\* _prepare_text: the normalised text, or None when it raises EmbeddingError
_prepare_text(text) ==
    IF _normalise_text(text) = "" THEN None ELSE Some(_normalise_text(text))

\* what the provider answers for a text at time t
Embedding(text, t) == [text |-> text, at |-> t]

\* embeddings._get_from_cache: [value, cache], value None on a miss
EmbeddingGet(c, key, t) ==
    IF key \notin CacheKeys(c) THEN [value |-> None, cache |-> c]
    ELSE IF IsExpired(CacheGet(c, key), t) THEN [value |-> None, cache |-> CachePop(c, key)]
    ELSE [value |-> Some(CacheGet(c, key).value), cache |-> MoveToEnd(c, key)]

RECURSIVE EvictOver(_, _)
EvictOver(c, max_entries) ==
    IF OverCapacity(c, max_entries) THEN EvictOver(PopItemFirst(c), max_entries) ELSE c

\* embeddings._set_cache
EmbeddingSet(c, key, value, t) ==
    EvictOver(SetItem(IF key \in CacheKeys(c) THEN MoveToEnd(c, key) ELSE c, key,
                      [key |-> key, value |-> value, expires_at |-> t + CACHE_TTL_SECONDS]),
              CACHE_MAX_ENTRIES)

\* a bug: every index gets an entry of its own
SetDefaultAppend_PerIndex(pending, text, idx) ==
    Append(pending, [text |-> text, indices |-> <<idx>>])

\* pending_map.setdefault(text, []).append(idx)
SetDefaultAppend(pending, text, idx) ==
    IF \E k \in 1..Len(pending) : pending[k].text = text
    THEN [k \in 1..Len(pending) |->
            IF pending[k].text = text
            THEN [pending[k] EXCEPT !.indices = Append(@, idx)]
            ELSE pending[k]]
    ELSE Append(pending, [text |-> text, indices |-> <<idx>>])

\* list(pending_map.keys())
PendingTexts(pending) == [k \in 1..Len(pending) |-> pending[k].text]

\* _chunked: the n-th chunk of the sequence
Chunk(seq, n) ==
    SubSeq(seq, (n - 1) * MAX_BATCH_SIZE + 1, Min(n * MAX_BATCH_SIZE, Len(seq)))

\* the cache after _set_cache of the embedding of each text of the chunk
RECURSIVE StoreChunk(_, _, _)
StoreChunk(c, chunk, t) ==
    IF chunk = <<>> THEN c
    ELSE StoreChunk(EmbeddingSet(c, _hash_text(Head(chunk)), Embedding(Head(chunk), t), t),
                    Tail(chunk), t)

\* results after the embedding of each text of the chunk is written at the
\* indices pending for the text
FillChunk(res, pending, chunk, t) ==
    [i \in 1..Len(res) |->
        IF \E k \in 1..Len(pending) :
              /\ \E m \in 1..Len(chunk) : chunk[m] = pending[k].text
              /\ \E m \in 1..Len(pending[k].indices) : pending[k].indices[m] = i
        THEN Some(Embedding(CHOOSE x \in {pending[k].text : k \in 1..Len(pending)} :
                                \E k \in 1..Len(pending) :
                                    /\ pending[k].text = x
                                    /\ \E m \in 1..Len(pending[k].indices) :
                                          pending[k].indices[m] = i,
                            t))
        ELSE res[i]]

\* texts: two that are equal once normalised, another, a blank one
TextPool == {" hello ", "hello", "bye", " "}

TextLists == UNION {[1..n -> TextPool] : n \in 0..MaxTexts}

\* no call under way; the cache c is kept
NoBatch(c) ==
    [kind |-> "batch", stage |-> "idle", texts |-> <<>>, prepared |-> <<>>, idx |-> 1,
     results |-> <<>>, pending |-> <<>>, sent |-> <<>>, hits |-> {}, cache |-> c]

BatchInit ==
    /\ fn = NoBatch(<<>>)
    /\ now = 0
    /\ MATCH_CACHE_MAX_ENTRIES = MaxEntries
    /\ _cache = <<>>
    /\ lock_holder = NoTask
    /\ lock_waiters = <<>>
    /\ pc = [t \in Tasks |-> "idle"]
    /\ req = [t \in Tasks |-> 0]
    /\ cache_key = [t \in Tasks |-> ""]
    /\ results = [t \in Tasks |-> <<>>]
    /\ note = [t \in Tasks |-> NewNote]
    /\ lru = <<>>

\* generate_embeddings_batch, embeddings.py:246-250: the early return, the
\* preparation of the texts
BatchCall(texts) ==
    /\ fn.kind = "batch" /\ fn.stage = "idle"
    /\ IF texts = <<>>
       THEN fn' = [fn EXCEPT !.stage = "returned"]
       ELSE IF \E i \in 1..Len(texts) : IsNone(_prepare_text(texts[i]))
       THEN fn' = [fn EXCEPT !.stage = "raised", !.texts = texts]
       ELSE fn' = [fn EXCEPT !.stage = "hydrate", !.texts = texts,
                             !.prepared = [i \in 1..Len(texts) |-> Val(_prepare_text(texts[i]))],
                             !.results = [i \in 1..Len(texts) |-> None]]
    /\ UNCHANGED <<MATCH_CACHE_MAX_ENTRIES, now, _cache, lock_holder, lock_waiters,
                   pc, req, cache_key, results, note, lru>>

\* embeddings.py:253-258: one iteration of the loop over the prepared texts
BatchLookup ==
    /\ fn.kind = "batch" /\ fn.stage = "hydrate"
    /\ LET text == fn.prepared[fn.idx]
           got == EmbeddingGet(fn.cache, _hash_text(text), now)
           pending == IF IsNone(got.value)
                      THEN SetDefaultAppend(fn.pending, text, fn.idx)
                      ELSE fn.pending
       IN  fn' = [fn EXCEPT
                    !.cache = got.cache,
                    !.results = IF IsNone(got.value) THEN @
                                ELSE [@ EXCEPT ![fn.idx] = got.value],
                    !.hits = IF IsNone(got.value) THEN @ ELSE @ \cup {fn.idx},
                    !.pending = pending,
                    !.idx = @ + 1,
                    !.stage = IF fn.idx < Len(fn.prepared) THEN "hydrate"
                              ELSE IF pending = <<>> THEN "check" ELSE "fetch"]
    /\ UNCHANGED <<MATCH_CACHE_MAX_ENTRIES, now, _cache, lock_holder, lock_waiters,
                   pc, req, cache_key, results, note, lru>>

\* embeddings.py:262-267: one chunk is sent to the provider, which answers
\* or fails; the answers are cached and written to results
BatchFetch ==
    /\ fn.kind = "batch" /\ fn.stage = "fetch"
    /\ LET chunk == Chunk(PendingTexts(fn.pending), Len(fn.sent) + 1)
       IN  \E answered \in BOOLEAN :
               IF ~answered
               THEN fn' = [fn EXCEPT !.stage = "raised", !.sent = Append(@, chunk)]
               ELSE fn' = [fn EXCEPT
                             !.sent = Append(@, chunk),
                             !.cache = StoreChunk(@, chunk, now),
                             !.results = FillChunk(@, fn.pending, chunk, now),
                             !.stage = IF (Len(fn.sent) + 1) * MAX_BATCH_SIZE
                                            < Len(fn.pending)
                                       THEN "fetch" ELSE "check"]
    /\ UNCHANGED <<MATCH_CACHE_MAX_ENTRIES, now, _cache, lock_holder, lock_waiters,
                   pc, req, cache_key, results, note, lru>>

\* embeddings.py:269-273
BatchReturn ==
    /\ fn.kind = "batch" /\ fn.stage = "check"
    /\ fn' = [fn EXCEPT !.stage = IF \E i \in 1..Len(fn.results) : IsNone(fn.results[i])
                                  THEN "raised" ELSE "returned"]
    /\ UNCHANGED <<MATCH_CACHE_MAX_ENTRIES, now, _cache, lock_holder, lock_waiters,
                   pc, req, cache_key, results, note, lru>>

\* the caller takes the result (or the exception); the cache stays
BatchDone ==
    /\ fn.kind = "batch" /\ fn.stage \in {"returned", "raised"}
    /\ fn' = NoBatch(fn.cache)
    /\ UNCHANGED <<MATCH_CACHE_MAX_ENTRIES, now, _cache, lock_holder, lock_waiters,
                   pc, req, cache_key, results, note, lru>>

BatchNext ==
    \/ \E texts \in TextLists : BatchCall(texts)
    \/ BatchLookup
    \/ BatchFetch
    \/ BatchReturn
    \/ BatchDone
    \/ Tick

BatchSpec == BatchInit /\ [][BatchNext]_vars

---------------------------------------------------------------------------
(* Claims *)

Writing(t) == pc[t] = "set_evict"
InCache(t) == pc[t] \in {"get_body", "set_body", "set_evict"}

\* the step is task t's read of the cache / its insert / one eviction by it
ReadStep(t) == pc[t] = "get_body" /\ pc'[t] # "get_body"
HitStep(t) == pc[t] = "get_body" /\ pc'[t] = "done"
InsertStep(t) == pc[t] = "set_body" /\ pc'[t] = "set_evict"
EvictStep(t) == pc[t] = "set_evict" /\ pc'[t] = "set_evict" /\ _cache' # _cache

\* C1: whenever no write is in progress, the cache holds at most
\* MATCH_CACHE_MAX_ENTRIES entries.
C1_CapacityBound ==
    (\A t \in Tasks : ~Writing(t)) => Len(_cache) <= MATCH_CACHE_MAX_ENTRIES

\* a write has evicted and left the cache full
C1_Witness ==
    \E t \in Tasks :
        /\ pc[t] = "done" /\ note[t].evicted >= 1
        /\ MATCH_CACHE_MAX_ENTRIES = MaxEntries
        /\ Len(_cache) = MATCH_CACHE_MAX_ENTRIES

\* C2: a read of a key whose entry was stored more than the TTL ago is a miss
\* (nothing is returned, the call goes on to compute) and removes the entry;
\* a read that returns a value finds an entry stored at most the TTL ago.
C2_ExpiredIsMiss ==
    [][\A t \in Tasks :
          ReadStep(t) =>
             LET key == cache_key[t]
                 stale == /\ key \in LruKeys(lru)
                          /\ LruOf(lru, key).stored_at + MATCH_CACHE_TTL_SECONDS < now
             IN  /\ stale => /\ pc'[t] = "compute"
                             /\ results'[t] = results[t]
                             /\ key \notin CacheKeys(_cache')
                 /\ pc'[t] = "done" => /\ key \in LruKeys(lru)
                                       /\ ~stale]_vars

\* a read has dropped an expired entry
C2_Witness ==
    \E t \in Tasks : pc[t] = "compute" /\ note[t].expired /\ cache_key[t] \notin CacheKeys(_cache)

\* C3: the cache is ordered by the latest use (hit or write) of its keys, and
\* every eviction removes exactly the least recently used key.
C3_LruOrder ==
    [][/\ KeySeq(_cache') = KeySeq(lru')
       /\ \A t \in Tasks :
             EvictStep(t) =>
                /\ lru # <<>>
                /\ Len(_cache') = Len(_cache) - 1
                /\ CacheKeys(_cache') = CacheKeys(_cache) \ {Head(lru).key}
                /\ OverCapacity(_cache, MATCH_CACHE_MAX_ENTRIES)]_vars

\* a write has evicted while the entry that another call had hit stayed
C3_Witness ==
    \E t, u \in Tasks :
        /\ pc[t] = "done" /\ note[t].evicted = 1
        /\ pc[u] = "done" /\ note[u].hit
        /\ Len(_cache) = 2
        /\ _cache[1].key = cache_key[u]
        /\ _cache[2].key = cache_key[t]

\* C4: the insert of _set_cache leaves exactly one entry for the key, with
\* the value, expiring at now + TTL, in the most recently used place, the
\* other entries as they were; when the key was present the number of
\* entries does not change and the write evicts nothing.
C4_WriteContract ==
    [][\A t \in Tasks :
          /\ InsertStep(t) =>
                LET key == cache_key[t]
                    last == _cache'[Len(_cache')]
                IN  /\ _cache' # <<>>
                    /\ last = [key |-> key, value |-> results[t],
                               expires_at |-> now + MATCH_CACHE_TTL_SECONDS]
                    /\ Cardinality({i \in 1..Len(_cache') : _cache'[i].key = key}) = 1
                    /\ Without(_cache', key) = Without(_cache, key)
                    /\ key \in CacheKeys(_cache) => Len(_cache') = Len(_cache)
                    /\ key \notin CacheKeys(_cache) => Len(_cache') = Len(_cache) + 1
          /\ (EvictStep(t) \/ note'[t].evicted # 0) => ~note[t].replaced]_vars

\* a write has replaced the entry another call stored for the same key
C4_Witness ==
    \E t \in Tasks : pc[t] = "done" /\ note[t].replaced /\ note[t].evicted = 0
                     /\ Len(_cache) = 2

\* C5 as stated: two completed calls with identical arguments hold identical
\* output.
C5_Idempotent ==
    \A t, u \in Tasks :
        (pc[t] = "done" /\ pc[u] = "done" /\ req[t] = req[u]) => results[t] = results[u]

\* C5 as amended: a call that hits the cache returns exactly the list the
\* latest write stored under its key, and a call that stored a list returns
\* that list.
C5_HitReproducesStored ==
    [][\A t \in Tasks :
          /\ HitStep(t) => /\ cache_key[t] \in LruKeys(lru)
                           /\ results'[t] = LruOf(lru, cache_key[t]).value
          /\ InsertStep(t) => /\ cache_key[t] \in LruKeys(lru')
                              /\ LruOf(lru', cache_key[t]).value = results[t]
          /\ (note[t].writes = 1 /\ pc'[t] # "idle") => results'[t] = results[t]]_vars

\* a call was served a ranked list from the cache, after the clock moved on
C5_Witness ==
    \E t \in Tasks : pc[t] = "done" /\ note[t].hit /\ results[t] # <<>>
                     /\ note[t].aged

\* C6: at most one task is inside a cache read or write, and it holds
\* _cache_lock; the keys in recency order are exactly the keys present, each
\* once; every entry has the expiry its latest write gave it.
C6_LockDiscipline ==
    /\ Cardinality({t \in Tasks : InCache(t)}) <= 1
    /\ \A t \in Tasks : InCache(t) <=> lock_holder = t
    /\ Cardinality(CacheKeys(_cache)) = Len(_cache)
    /\ LruKeys(lru) = CacheKeys(_cache) /\ Len(lru) = Len(_cache)
    /\ \A i \in 1..Len(_cache) :
          /\ _cache[i].key \in LruKeys(lru)
          /\ _cache[i].expires_at
                = LruOf(lru, _cache[i].key).stored_at + MATCH_CACHE_TTL_SECONDS

\* one task is evicting while the other is queued for the lock
C6_Witness ==
    \E t, u \in Tasks :
        /\ pc[t] = "set_evict" /\ Len(_cache) > MATCH_CACHE_MAX_ENTRIES
        /\ pc[u] \in {"get_wait", "set_wait"} /\ lock_waiters = <<u>>

\* two completed calls with the same key that both missed and both wrote
BothMissedAndWrote(t, u) ==
    /\ t # u
    /\ pc[t] = "done" /\ pc[u] = "done"
    /\ cache_key[t] = cache_key[u]
    /\ ~note[t].hit /\ ~note[u].hit
    /\ note[t].writes = 1 /\ note[u].writes = 1

\* a call that missed computes outside the lock: it neither holds it nor
\* queues for it, so that no call waits for a computation
ComputesFreely ==
    \A t \in Tasks :
        pc[t] = "compute" =>
            /\ lock_holder # t
            /\ \A i \in 1..Len(lock_waiters) : lock_waiters[i] # t

\* after two writes of one key: one entry, of the later write, within capacity
OneEntryOfLaterWrite(key) ==
    /\ Cardinality({i \in 1..Len(_cache) : _cache[i].key = key}) = 1
    /\ key \in LruKeys(lru)
    /\ CacheGet(_cache, key).value = LruOf(lru, key).value
    /\ CacheGet(_cache, key).expires_at
          = LruOf(lru, key).stored_at + MATCH_CACHE_TTL_SECONDS
    /\ Len(_cache) <= MATCH_CACHE_MAX_ENTRIES

\* C7 as stated: two calls with the same key that both miss both compute,
\* neither waiting for the other, both write, and afterwards the cache
\* holds exactly one entry for the key, that of the later write.
C7_RaceLeavesOneEntry ==
    /\ ComputesFreely
    /\ \A t, u \in Tasks : BothMissedAndWrote(t, u) => OneEntryOfLaterWrite(cache_key[t])

\* C7 as amended: the same, when MATCH_CACHE_MAX_ENTRIES is at least 1.
C7_RaceLeavesOneEntryIfRoom ==
    /\ ComputesFreely
    /\ \A t, u \in Tasks :
          (BothMissedAndWrote(t, u) /\ MATCH_CACHE_MAX_ENTRIES >= 1)
             => OneEntryOfLaterWrite(cache_key[t])

\* both calls missed with no entry to expire, and the later write found the
\* entry of the earlier one: the two calls overlapped
C7_Witness ==
    \E t, u \in Tasks :
        /\ BothMissedAndWrote(t, u)
        /\ MATCH_CACHE_MAX_ENTRIES >= 1
        /\ ~note[t].expired /\ ~note[u].expired
        /\ note[t].replaced
        /\ results[t] # <<>>

\* C8: a hit returns the stored list as it is, leaves every entry's value and
\* expiry alone and only moves the entry to the most recently used place;
\* the call scores no job, writes nothing and ends.
C8_HitFrame ==
    [][\A t \in Tasks :
          /\ HitStep(t) =>
                LET entry == CacheGet(_cache, cache_key[t])
                IN  /\ results'[t] = entry.value
                    /\ _cache' = Without(_cache, cache_key[t]) \o <<entry>>
                    /\ note'[t].scored = 0 /\ note'[t].writes = 0
                    /\ note'[t].evicted = 0
          /\ (pc[t] = "done" /\ note[t].hit) =>
                /\ pc'[t] \in {"done", "idle"}
                /\ pc'[t] = "done" => (results'[t] = results[t] /\ note'[t] = note[t])]_vars

\* a hit, after the clock moved, on the older of two entries, whose expiry is
\* still that of its write
C8_Witness ==
    \E t \in Tasks :
        /\ pc[t] = "done" /\ note[t].hit
        /\ Len(_cache) = 2 /\ _cache[2].key = cache_key[t]
        /\ _cache[2].expires_at < _cache[1].expires_at
        /\ note[t].aged

\* the request passes the check of the graduate embedding and has no job
\* left after deduplication
EmptyRequest(r) ==
    /\ _validate_vector(Requests[r].graduate_embedding)
    /\ _deduplicate_jobs(Requests[r].job_embeddings) = <<>>

\* C9: a call whose job list is empty after deduplication (the graduate
\* embedding being valid) returns the empty list at once, and neither reads
\* nor writes the cache nor takes its lock.
C9_EmptyJobsNoCache ==
    [][\A t \in Tasks :
          (req'[t] # 0 /\ EmptyRequest(req'[t])) =>
             /\ pc'[t] = "done"
             /\ results'[t] = <<>>
             /\ note'[t] = NewNote
             /\ lock_holder' # t
             /\ pc[t] = "idle" =>
                   UNCHANGED <<_cache, lru, lock_holder, lock_waiters>>]_vars

\* such a call has returned while the cache holds entries
C9_Witness ==
    \E t \in Tasks : /\ pc[t] = "done" /\ req[t] # 0 /\ EmptyRequest(req[t])
                     /\ Len(_cache) = 2

\* the graduate embedding, or the embedding of a job that survives the
\* deduplication, has the wrong length
HasMismatch(r) ==
    \/ ~_validate_vector(Requests[r].graduate_embedding)
    \/ LET jobs == _deduplicate_jobs(Requests[r].job_embeddings)
       IN  \E i \in 1..Len(jobs) : ~_validate_vector(Val(jobs[i].embedding))

\* C10: a call with a dimension mismatch never returns a list, holds no
\* partial results and stores nothing in the cache.
C10_MismatchRaises ==
    \A t \in Tasks :
        (req[t] # 0 /\ HasMismatch(req[t])) =>
            /\ pc[t] # "done"
            /\ results[t] = <<>>
            /\ note[t].writes = 0

\* the ids of a list of job records or of results; no id twice
Ids(seq) == {seq[i].id : i \in 1..Len(seq)}
DistinctIds(seq) == \A i, j \in 1..Len(seq) : seq[i].id = seq[j].id => i = j

\* the record has an id and an embedding
WellFormed(job) == job.id # "" /\ ~IsNone(job.embedding)

\* the place in the job list of the first well-formed record with the id
FirstPlace(job_embeddings, id) ==
    CHOOSE k \in 1..Len(job_embeddings) :
        /\ WellFormed(job_embeddings[k]) /\ job_embeddings[k].id = id
        /\ \A m \in 1..(k - 1) :
              ~(WellFormed(job_embeddings[m]) /\ job_embeddings[m].id = id)

\* C11, of the computation alone: the jobs that are scored are the first
\* well-formed record of each id, in input order, and the computed list has
\* no id twice and only ids of these jobs.
C11_DedupKeepsFirst ==
    fn.kind = "request" =>
        LET given == fn.input.job_embeddings
            kept == {k \in 1..Len(given) : WellFormed(given[k])}
        IN  /\ fn.stage = "returned" => kept = {}
            /\ fn.stage \in {"deduplicated", "scored", "ranked"} =>
                  /\ DistinctIds(fn.jobs)
                  /\ Ids(fn.jobs) = {given[k].id : k \in kept}
                  /\ \A i \in 1..Len(fn.jobs) :
                        fn.jobs[i] = given[FirstPlace(given, fn.jobs[i].id)]
                  /\ \A i, j \in 1..Len(fn.jobs) :
                        i < j => FirstPlace(given, fn.jobs[i].id)
                                    < FirstPlace(given, fn.jobs[j].id)
            /\ fn.stage = "ranked" =>
                  /\ DistinctIds(fn.results)
                  /\ Ids(fn.results) \subseteq Ids(fn.jobs)

\* a list was computed from a job list with a repeated id and a record
\* without an embedding before the first well-formed one of its id
C11_DedupWitness ==
    /\ fn.kind = "request" /\ fn.stage = "ranked"
    /\ fn.input.job_embeddings = <<Job3NoEmbedding, Job3, Job3>>
    /\ Ids(fn.results) = {"job-3"}

\* C11: a returned list has no id twice, and every id in it is an id of the
\* job list the caller passed.
C11_OutputIdsOfInput ==
    \A t \in Tasks :
        (pc[t] = "done" /\ req[t] # 0) =>
            /\ DistinctIds(results[t])
            /\ Ids(results[t]) \subseteq Ids(Requests[req[t]].job_embeddings)

\* C12: a computed list is in descending order of score, and results of
\* equal score are in the order of their jobs in the input.
C12_SortedStable ==
    (fn.kind = "request" /\ fn.stage = "ranked") =>
        \A i, j \in 1..Len(fn.results) :
            i < j =>
                /\ fn.results[i].score >= fn.results[j].score
                /\ fn.results[i].score = fn.results[j].score =>
                      FirstPlace(fn.input.job_embeddings, fn.results[i].id)
                         < FirstPlace(fn.input.job_embeddings, fn.results[j].id)

\* two jobs of equal score were ranked, in input order, above a job that
\* came before them in the input
C12_Witness ==
    /\ fn.kind = "request" /\ fn.stage = "ranked"
    /\ fn.input.job_embeddings = <<Job2, JobY, Job3>>
    /\ Len(fn.results) = 3
    /\ fn.results[1].id = "y" /\ fn.results[2].id = "job-3" /\ fn.results[3].id = "job-2"
    /\ fn.results[1].score = fn.results[2].score
    /\ fn.results[2].score > fn.results[3].score

\* the combined score of a deduplicated job of the request in fn, as the
\* fraction num / den, before any rounding
Combined(job) ==
    ScoreJob(fn.input.graduate_embedding, fn.input.graduate_metadata, job,
             fn.opts.weights, now)

\* the combined score is not below the effective min-score
PassesThreshold(job) == Combined(job).num * Fine >= fn.opts.min_score * Combined(job).den

GivenLimit(options) ==
    IF IsNone(options) \/ Val(options).order = <<>> \/ IsNone(Val(options).limit)
    THEN DEFAULT_MAX_RESULTS
    ELSE Val(Val(options).limit)

\* the place of a result in the list of the results that passed the filter
PlaceIn(scored, result) == CHOOSE k \in 1..Len(scored) : scored[k] = result

\* C14: the computed list has at most max(1, limit) entries, as many as that
\* or all the results that passed the filter; they are results that passed,
\* and every result left out ranks below every result returned (a lower
\* score, or the same score and a later place in the input).
C14_Truncated ==
    (fn.kind = "request" /\ fn.stage = "ranked") =>
        LET most == Max(1, GivenLimit(fn.input.options))
            returned == {fn.results[i] : i \in 1..Len(fn.results)}
            passed == {fn.scored[i] : i \in 1..Len(fn.scored)}
        IN  /\ Len(fn.results) <= most
            /\ Len(fn.results) = Min(most, Len(fn.scored))
            /\ Cardinality(returned) = Len(fn.results)
            /\ returned \subseteq passed
            /\ \A r \in returned, s \in passed \ returned :
                  \/ r.score > s.score
                  \/ /\ r.score = s.score
                     /\ PlaceIn(fn.scored, r) < PlaceIn(fn.scored, s)

\* a limit of 0 returned one result of three, a limit of 2 would return two
C14_Witness ==
    /\ fn.kind = "request" /\ fn.stage = "ranked"
    /\ GivenLimit(fn.input.options) = 0
    /\ Len(fn.scored) = 3 /\ Len(fn.results) = 1
    /\ fn.scored[1].score < fn.results[1].score

\* the options with a given min_score put into [0, 1] and a given limit
\* raised to 1
ClampedOptions(options) ==
    IF IsNone(options) THEN options
    ELSE LET o == Val(options)
         IN  Some([o EXCEPT
                    !.min_score = IF IsNone(@) THEN @
                                  ELSE Some(Max(0, Min(Val(@), Scale * Fine))),
                    !.limit = IF IsNone(@) THEN @ ELSE Some(Max(1, Val(@)))])

\* C15: a call raises only for an embedding of the wrong length, whatever
\* min_score and limit are; the effective min-score is in [0, 1] and the
\* effective limit at least 1; and the computed list is the list computed
\* for the same request with min_score and limit clamped.
C15_OptionsClamped ==
    fn.kind = "request" =>
        LET a == fn.input
        IN  /\ fn.stage = "raised" =>
                  \/ ~_validate_vector(a.graduate_embedding)
                  \/ \E i \in 1..Len(a.job_embeddings) :
                        /\ WellFormed(a.job_embeddings[i])
                        /\ ~_validate_vector(Val(a.job_embeddings[i].embedding))
            /\ fn.stage \in {"scored", "ranked"} =>
                  /\ 0 <= fn.opts.min_score /\ fn.opts.min_score <= Scale * Fine
                  /\ fn.opts.limit >= 1
                  /\ fn.opts = _prepare_options(ClampedOptions(a.options))
            /\ fn.stage = "ranked" =>
                  fn.results = RankedResults(a.graduate_embedding, a.graduate_metadata,
                                             fn.jobs, ClampedOptions(a.options), now)

\* a list was computed under a negative min_score and a limit of 0
C15_Witness ==
    /\ fn.kind = "request" /\ fn.stage = "ranked"
    /\ ~IsNone(fn.input.options)
    /\ ~IsNone(Val(fn.input.options).min_score)
    /\ Val(Val(fn.input.options).min_score) < 0
    /\ GivenLimit(fn.input.options) = 0
    /\ Len(fn.scored) = 2 /\ Len(fn.results) = 1

\* the sum of the five numerators of normalised weights
SumOfWeights(num) ==
    num.embedding + num.skills + num.education + num.experience + num.freshness

\* normalised weights (fractions num[k] / den) are not negative and sum to 1
IsDistribution(weights) ==
    /\ DOMAIN weights.num = Factors
    /\ weights.den > 0
    /\ \A k \in Factors : weights.num[k] >= 0
    /\ SumOfWeights(weights.num) = weights.den

\* C16: for every weights override (any of the five factors, negative, zero
\* or positive, the others filled from the defaults) the weights used for
\* scoring are not negative and sum to 1; they are in the proportion of the
\* given weights with the negative ones raised to 0, or, when these sum to
\* 0, embedding = 1 and all others 0.
C16_WeightsNormalised ==
    /\ (fn.kind = "request" /\ fn.stage \in {"scored", "ranked"}) =>
           IsDistribution(fn.opts.weights)
    /\ (fn.kind = "weights" /\ fn.stage = "applied") =>
           LET filled == [k \in Factors |-> IF k \in DOMAIN fn.input THEN fn.input[k]
                                                                     ELSE DEFAULT_WEIGHTS[k]]
               raised == [k \in Factors |-> Max(filled[k], 0)]
               total == SumOfWeights(raised)
           IN  /\ IsDistribution(fn.out)
               /\ total = 0 => \A k \in Factors :
                                  fn.out.num[k] * 1 = (IF k = "embedding" THEN fn.out.den ELSE 0)
               /\ total > 0 => \A k \in Factors :
                                  fn.out.num[k] * total = raised[k] * fn.out.den

\* an override with only a negative embedding weight left the four default
\* weights of the other factors, scaled to sum to 1
C16_Witness ==
    /\ fn.kind = "weights" /\ fn.stage = "applied"
    /\ DOMAIN fn.input = {"embedding"} /\ fn.input["embedding"] < 0
    /\ fn.out.num.embedding = 0
    /\ fn.out.num.skills * 2 = fn.out.den

\* the key compute_matches builds for a request
KeyOfRequest(a) ==
    _build_cache_key(a.graduate_embedding, _deduplicate_jobs(a.job_embeddings),
                     a.graduate_metadata, a.options)

\* the options as values, whatever the insertion order of the keys
OptionValues(options) ==
    IF IsNone(options) \/ Val(options).order = <<>> THEN None
    ELSE Some([min_score |-> Val(options).min_score, limit |-> Val(options).limit,
               weights |-> Val(options).weights])

\* two requests differ in the graduate embedding, the graduate metadata, the
\* deduplicated jobs (ids, order, embeddings, metadata) or an option
LogicallyDifferent(a, b) ==
    \/ a.graduate_embedding # b.graduate_embedding
    \/ a.graduate_metadata # b.graduate_metadata
    \/ _deduplicate_jobs(a.job_embeddings) # _deduplicate_jobs(b.job_embeddings)
    \/ OptionValues(a.options) # OptionValues(b.options)

\* C17: two calls whose requests differ logically hold different cache keys.
C17_KeySensitive ==
    \A t, u \in Tasks :
        (/\ req[t] # 0 /\ req[u] # 0
         /\ cache_key[t] # "" /\ cache_key[u] # ""
         /\ LogicallyDifferent(Requests[req[t]], Requests[req[u]]))
            => cache_key[t] # cache_key[u]

RECURSIVE Reverse(_)
Reverse(seq) == IF seq = <<>> THEN <<>> ELSE Reverse(Tail(seq)) \o <<Head(seq)>>

\* the same options, the keys inserted in the opposite order
Reinserted(options) ==
    IF IsNone(options) THEN options
    ELSE Some([Val(options) EXCEPT !.order = Reverse(@)])

\* requests of equal logical content: the duplicates and malformed records
\* dropped, malformed records added, every record repeated, the option keys
\* inserted in another order
Variants(a) ==
    { [a EXCEPT !.job_embeddings = _deduplicate_jobs(a.job_embeddings)],
      [a EXCEPT !.job_embeddings = <<JobNoId>> \o a.job_embeddings \o <<JobNoEmbedding>>],
      [a EXCEPT !.job_embeddings = a.job_embeddings \o a.job_embeddings],
      [a EXCEPT !.options = Reinserted(a.options)] }

\* C18: the key a call holds is the key of its request alone, whatever the
\* cache holds and whatever the time, and it is the key of every request of
\* equal logical content.
C18_KeyStable ==
    \A t \in Tasks :
        (req[t] # 0 /\ cache_key[t] # "") =>
            /\ cache_key[t] = KeyOfRequest(Requests[req[t]])
            /\ \A v \in Variants(Requests[req[t]]) : KeyOfRequest(v) = cache_key[t]

\* the same on the drawn requests (under FnSpec): every job list over the
\* pool and every option of the pool
C18_KeyStableDrawn ==
    (fn.kind = "request" /\ fn.stage \in {"deduplicated", "scored", "ranked"}) =>
        /\ fn.key = KeyOfRequest(fn.input)
        /\ \A v \in Variants(fn.input) : KeyOfRequest(v) = fn.key

\* two calls hold the key of the request with a repeated id and two options
\* while the cache holds two entries, one of them for that key, and the
\* clock has moved
C18_Witness ==
    /\ now > 0 /\ Len(_cache) = 2
    /\ \A t \in Tasks : req[t] = 1 /\ cache_key[t] \in CacheKeys(_cache)
    /\ pc["t1"] = "done" /\ pc["t2"] = "compute"

Finished(t) == pc[t] \in {"done", "raised"}

WaitsForLock(t) == pc[t] \in {"get_wait", "set_wait"}

HasLock(t) == pc[t] \in {"get_body", "set_body", "set_evict"}

\* C19: under fair scheduling every call under way eventually returns or
\* raises, a call waiting for the lock eventually has it, and a task that is
\* not in a call, or whose call has returned or raised, neither holds the
\* lock nor queues for it.
C19_Terminates ==
    /\ [](\A t \in Tasks :
            (pc[t] = "idle" \/ Finished(t)) =>
                lock_holder # t /\ \A i \in 1..Len(lock_waiters) : lock_waiters[i] # t)
    /\ \A t \in Tasks : (pc[t] # "idle") ~> Finished(t)
    /\ \A t \in Tasks : WaitsForLock(t) ~> HasLock(t)

\* a call queues for the lock while the other call holds it with the
\* eviction loop still to run
C19_Witness ==
    /\ pc["t1"] = "set_evict" /\ lock_holder = "t1"
    /\ OverCapacity(_cache, MATCH_CACHE_MAX_ENTRIES)
    /\ pc["t2"] = "set_wait" /\ lock_waiters = <<"t2">>

\* the set of a skill list as the contract reads it: every string trimmed
\* and lowercased, the empty ones left out; an absent list has no skills
SkillSet(skills) ==
    IF IsNone(skills) THEN {}
    ELSE {StripLower(Val(skills)[i]) : i \in 1..Len(Val(skills))} \ {""}

SkillsContract(G, J) ==
    IF G = {} THEN 0
    ELSE IF J = {} THEN Scale \div 2
    ELSE (Scale * Cardinality(G \cap J)) \div Cardinality(G \cup J)

\* a list with no empty and no blank string
ProperSkills(skills) ==
    IsNone(skills) \/ \A i \in 1..Len(Val(skills)) : StripLower(Val(skills)[i]) # ""

\* C20: _skills_similarity returns 0.0 if the graduate's skill set is empty,
\* else 0.5 if the job's is empty, else the Jaccard index of the two sets.
C20_SkillsScore ==
    (fn.kind = "skills" /\ fn.stage = "applied") =>
        fn.out = SkillsContract(SkillSet(fn.input.graduate), SkillSet(fn.input.job))

\* the same on lists with no empty and no blank string
C20_SkillsScoreProper ==
    (/\ fn.kind = "skills" /\ fn.stage = "applied"
     /\ ProperSkills(fn.input.graduate) /\ ProperSkills(fn.input.job)) =>
        fn.out = SkillsContract(SkillSet(fn.input.graduate), SkillSet(fn.input.job))

\* skills that differ in case only score 1.0
C20_ProperWitness ==
    /\ fn.kind = "skills" /\ fn.stage = "applied"
    /\ fn.input.graduate = Some(<<"React", "TypeScript">>)
    /\ fn.input.job = Some(<<"react", "typescript">>)
    /\ fn.out = Scale

\* a label that is None or the empty string
Absent(label) == IsNone(label) \/ Val(label) = ""

\* a label that is present and empty once trimmed
Blank(label) == ~Absent(label) /\ StripLower(Val(label)) = ""

\* the comparison of two present labels, trimmed and lowercased
CompareLabels(graduate, job) ==
    LET g == StripLower(Val(graduate))
        j == StripLower(Val(job))
    IN  IF g = j THEN Scale
        ELSE IF IsSubstring(g, j) \/ IsSubstring(j, g) THEN (7 * Scale) \div 10
        ELSE 0

\* C21 as stated: 0.5 when the job label is absent, else 0.0 when the
\* graduate label is absent, else the comparison of the trimmed, lowercased
\* labels (1.0, 0.7 or 0.0).
C21_EducationAsStated ==
    (fn.kind = "education" /\ fn.stage = "applied") =>
        fn.out = IF Absent(fn.input.job) THEN Scale \div 2
                 ELSE IF Absent(fn.input.graduate) THEN 0
                 ELSE CompareLabels(fn.input.graduate, fn.input.job)

\* C21: _education_similarity returns 0.5 when the job label is absent, else
\* 0.0 when the graduate label is absent, else 0.0 when either label is
\* blank, else 1.0 when the trimmed, lowercased labels are equal, 0.7 when
\* one is within the other, 0.0 otherwise.
C21_EducationScore ==
    (fn.kind = "education" /\ fn.stage = "applied") =>
        fn.out = IF Absent(fn.input.job) THEN Scale \div 2
                 ELSE IF Absent(fn.input.graduate) THEN 0
                 ELSE IF Blank(fn.input.graduate) \/ Blank(fn.input.job) THEN 0
                 ELSE CompareLabels(fn.input.graduate, fn.input.job)

\* both labels absent: the job's rule wins
C21_Witness ==
    /\ fn.kind = "education" /\ fn.stage = "applied"
    /\ Absent(fn.input.graduate) /\ Absent(fn.input.job)
    /\ fn.out = Scale \div 2

\* 1 - diff / max(job years, 1.0), floored at 0.0
Closeness(diff, job_years) ==
    Max(0, Scale - (Scale * diff) \div (IF job_years >= YearUnit THEN job_years ELSE YearUnit))

\* C22: _experience_similarity returns 0.6 when the job's years are absent,
\* else 0.0 when the graduate's are absent, else 0.0 when the absolute
\* difference is at least the job's years, else 1 - diff / max(job years, 1.0)
\* floored at 0.0; a job of 0 years scores 0.0 for every graduate, and a
\* graduate with exactly the (positive) years of the job scores 1.0.
C22_ExperienceScore ==
    (fn.kind = "experience" /\ fn.stage = "applied") =>
        LET g == fn.input.graduate
            j == fn.input.job
        IN  /\ IsNone(j) => fn.out = (6 * Scale) \div 10
            /\ (~IsNone(j) /\ IsNone(g)) => fn.out = 0
            /\ (~IsNone(j) /\ ~IsNone(g)) =>
                  /\ Abs(Val(g) - Val(j)) >= Val(j) => fn.out = 0
                  /\ Abs(Val(g) - Val(j)) < Val(j) =>
                        fn.out = Closeness(Abs(Val(g) - Val(j)), Val(j))
                  /\ Val(j) = 0 => fn.out = 0
                  /\ (Val(j) > 0 /\ Val(g) = Val(j)) => fn.out = Scale

\* a job of half a year and a graduate of a quarter: the difference is
\* measured against one year, not against the job's half year
C22_Witness ==
    /\ fn.kind = "experience" /\ fn.stage = "applied"
    /\ fn.input.graduate = Some(1) /\ fn.input.job = Some(2)
    /\ fn.out = (3 * Scale) \div 4

InUnit(x) == 0 <= x /\ x <= Scale

\* every sub-score and the score of every result of the list lie in [0,1]
InRange(list) ==
    \A i \in 1..Len(list) :
        /\ InUnit(list[i].score)
        /\ \A k \in Factors : InUnit(list[i].factors[k])

\* the results of the list for jobs whose embedding makes a negative cosine
\* with the graduate's have an embedding sub-score of 0
NegativeCountsZero(list, graduate_embedding, jobs) ==
    \A i \in 1..Len(list), j \in 1..Len(jobs) :
        (/\ jobs[j].id = list[i].id
         /\ cosine_similarity(graduate_embedding, Val(jobs[j].embedding)) < 0)
            => list[i].factors.embedding = 0

\* C23: every sub-score and the combined score of every scored and of every
\* returned result lies in [0,1], and a negative cosine similarity counts
\* as 0.
C23_ScoreRange ==
    (fn.kind = "request" /\ fn.stage \in {"scored", "ranked"}) =>
        /\ InRange(fn.scored) /\ InRange(fn.results)
        /\ NegativeCountsZero(fn.scored, fn.input.graduate_embedding, fn.jobs)
        /\ NegativeCountsZero(fn.results, fn.input.graduate_embedding, fn.jobs)

\* the same for what the calls hold and return, computed or cached
C23_ReturnedInRange == \A t \in Tasks : InRange(results[t])

\* a job whose embedding points away is returned with an embedding
\* sub-score of 0
C23_Witness ==
    /\ fn.kind = "request" /\ fn.stage = "ranked"
    /\ \E i \in 1..Len(fn.results) :
          /\ fn.results[i].id = JobOpposite.id
          /\ fn.results[i].factors.embedding = 0
          /\ fn.results[i].score > 0

ZeroVector(v) == \A i \in 1..Len(v) : v[i] = 0

\* the float 1.0, the float 0.0
One == [near |-> Scale, rounding |-> 0]
Zero == [near |-> 0, rounding |-> 0]

NormSq(v) == SumSeq([i \in 1..Len(v) |-> v[i] * v[i]])

JobOf(id) == fn.jobs[CHOOSE k \in 1..Len(fn.jobs) : fn.jobs[k].id = id]

\* job a has a strictly higher combined score, before rounding, than job b
\* (the two fractions have the denominator of the weights)
HigherCombined(a, b) == Combined(a).num > Combined(b).num

\* the request in fn was ranked with an effective min_score of 0.0 and a
\* limit of at least the number of its deduplicated jobs
Unfiltered ==
    /\ fn.kind = "request" /\ fn.stage = "ranked"
    /\ fn.opts.min_score = 0 /\ fn.opts.limit >= Len(fn.jobs)

\* one result per deduplicated job, each with the five sub-scores
OnePerJob ==
    /\ Len(fn.results) = Len(fn.jobs)
    /\ Ids(fn.results) = Ids(fn.jobs)
    /\ \A i \in 1..Len(fn.results) : DOMAIN fn.results[i].factors = Factors

\* C25 as stated: with min_score 0.0 and a limit that is large enough, a
\* miss returns one result per deduplicated job, each with the five
\* sub-scores, and a job with a strictly higher combined score is ranked
\* before a job with a lower one.
C25_HigherCombinedFirst ==
    Unfiltered =>
        /\ OnePerJob
        /\ \A i, j \in 1..Len(fn.results) :
              HigherCombined(JobOf(fn.results[i].id), JobOf(fn.results[j].id)) => i < j

\* C25: with min_score 0.0 and a limit that is large enough, a miss returns
\* one result per deduplicated job, each with the five sub-scores; a job
\* with a strictly higher rounded score is ranked before a job with a lower
\* one, and a job with a strictly higher combined score is ranked after a
\* job with a lower one only when both round to the same score and it
\* comes later in the job list.
C25_HigherScoreFirst ==
    Unfiltered =>
        /\ OnePerJob
        /\ \A i, j \in 1..Len(fn.results) :
              /\ fn.results[i].score > fn.results[j].score => i < j
              /\ (HigherCombined(JobOf(fn.results[i].id), JobOf(fn.results[j].id)) /\ i > j) =>
                    /\ fn.results[i].score = fn.results[j].score
                    /\ FirstPlace(fn.input.job_embeddings, fn.results[i].id)
                          > FirstPlace(fn.input.job_embeddings, fn.results[j].id)

\* a job with parallel embedding and matching skills and education is
\* ranked before a job with zero embedding and disjoint skills, which
\* stays before a later job of the same rounded score and a higher
\* combined score
C25_Witness ==
    /\ Unfiltered
    /\ fn.input.job_embeddings = <<Job2, JobOpposite, Job1>>
    /\ Len(fn.results) = 3
    /\ fn.results[1].id = Job1.id /\ fn.results[2].id = Job2.id
    /\ fn.results[3].id = JobOpposite.id
    /\ fn.results[2].score = fn.results[3].score
    /\ HigherCombined(JobOpposite, Job2)

RECURSIVE Flatten(_)
Flatten(chunks) == IF chunks = <<>> THEN <<>> ELSE Head(chunks) \o Flatten(Tail(chunks))

\* the texts sent to the provider by the call under way, in order
SentTexts == Flatten(fn.sent)

\* the next lookup of the call finds its text in the cache, not expired
NextIsCached ==
    LET key == _hash_text(fn.prepared[fn.idx])
    IN  key \in CacheKeys(fn.cache) /\ ~IsExpired(CacheGet(fn.cache, key), now)

LookupStep == fn.kind = "batch" /\ fn.stage = "hydrate" /\ fn'.idx = fn.idx + 1

InBatch == fn.kind = "batch" /\ fn.stage \in {"hydrate", "fetch", "check", "returned"}

\* C26: a batch that returns gives one embedding per text, that of the text,
\* in input order; within a call no text is sent to the provider twice, the
\* texts sent are those of the lookups that missed, a lookup that finds the
\* text in the cache and not expired takes the cached embedding and sends
\* nothing, and what a lookup took from the cache is what is returned.
C26_BatchContract ==
    /\ [](fn.kind = "batch" /\ fn.stage = "returned" =>
            /\ Len(fn.results) = Len(fn.texts)
            /\ \A i \in 1..Len(fn.texts) :
                  /\ ~IsNone(fn.results[i])
                  /\ Val(fn.results[i]).text = _normalise_text(fn.texts[i])
            /\ {SentTexts[k] : k \in 1..Len(SentTexts)}
                  = {fn.prepared[i] : i \in (1..Len(fn.prepared)) \ fn.hits})
    /\ [](InBatch =>
            /\ \A k, m \in 1..Len(SentTexts) : SentTexts[k] = SentTexts[m] => k = m
            /\ \A k \in 1..Len(SentTexts) :
                  \E i \in (1..Len(fn.prepared)) \ fn.hits : fn.prepared[i] = SentTexts[k])
    /\ [][LookupStep =>
            IF NextIsCached
            THEN /\ fn.idx \in fn'.hits
                 /\ fn'.results[fn.idx]
                      = Some(CacheGet(fn.cache, _hash_text(fn.prepared[fn.idx])).value)
                 /\ fn'.pending = fn.pending
            ELSE fn.idx \notin fn'.hits]_vars
    /\ [][(InBatch /\ fn'.stage # "idle") =>
            \A i \in fn.hits : fn'.results[i] = fn.results[i]]_vars

\* of three texts the first two are equal once normalised and the third is
\* served from the cache: one text is sent, once
C26_Witness ==
    /\ fn.kind = "batch" /\ fn.stage = "returned"
    /\ fn.texts = <<" hello ", "hello", "bye">>
    /\ fn.hits = {3}
    /\ fn.sent = << <<"hello">> >>
    /\ Val(fn.results[3]).at < Val(fn.results[1]).at

\* the expiry of key k changes, or k enters the cache, in the step
ExpirySet(k) ==
    /\ k \in CacheKeys(_cache')
    /\ k \in CacheKeys(_cache) => CacheGet(_cache', k).expires_at # CacheGet(_cache, k).expires_at

\* C27: a hit leaves the expiry of its entry as it was, only a write sets an
\* expiry (to the time of the write plus the TTL), and the list a hit
\* returns was stored by the latest write of the key, at most
\* MATCH_CACHE_TTL_SECONDS earlier.
C27_BoundedStaleness ==
    /\ [][\A t \in Tasks :
            HitStep(t) =>
                /\ cache_key[t] \in LruKeys(lru)
                /\ results'[t] = LruOf(lru, cache_key[t]).value
                /\ now - LruOf(lru, cache_key[t]).stored_at <= MATCH_CACHE_TTL_SECONDS
                /\ CacheGet(_cache', cache_key[t]).expires_at
                      = CacheGet(_cache, cache_key[t]).expires_at]_vars
    /\ [][\A k \in CacheKeys(_cache') :
            ExpirySet(k) =>
                /\ \E t \in Tasks : InsertStep(t) /\ cache_key[t] = k
                /\ CacheGet(_cache', k).expires_at = now + MATCH_CACHE_TTL_SECONDS]_vars

\* a second hit on an entry, at the very end of its life
C27_Witness ==
    \E t \in Tasks :
        /\ pc[t] = "done" /\ note[t].hit /\ note[t].aged
        /\ now = LruOf(lru, cache_key[t]).stored_at + MATCH_CACHE_TTL_SECONDS
        /\ \E u \in Tasks \ {t} :
              pc[u] = "done" /\ note[u].hit /\ cache_key[u] = cache_key[t]

\* key k is in the cache with an entry that has not expired
Fresh(c, k) == k \in CacheKeys(c) /\ ~IsExpired(CacheGet(c, k), now)

\* C28: with room for at least one entry, a write does not evict the key it
\* writes: the key is in the cache with the written list from the insert to
\* the end of the write; afterwards an entry leaves the cache only by the
\* eviction of a write or as expired at a read, its list changes only by a
\* write, and a read of a key that is in the cache and not expired is a hit
\* that returns the list of the entry.
C28_ReadYourWrite ==
    /\ [](\A t \in Tasks :
            (MATCH_CACHE_MAX_ENTRIES >= 1 /\ Writing(t)) =>
                /\ cache_key[t] \in CacheKeys(_cache)
                /\ CacheGet(_cache, cache_key[t]).value = results[t])
    /\ [][\A t \in Tasks :
            (MATCH_CACHE_MAX_ENTRIES >= 1 /\ Writing(t)) =>
                /\ cache_key[t] \in CacheKeys(_cache')
                /\ CacheGet(_cache', cache_key[t]) = CacheGet(_cache, cache_key[t])]_vars
    /\ [][\A k \in CacheKeys(_cache) :
            /\ k \notin CacheKeys(_cache') =>
                  \/ \E t \in Tasks : EvictStep(t)
                  \/ \E t \in Tasks : /\ ReadStep(t) /\ cache_key[t] = k
                                       /\ IsExpired(CacheGet(_cache, k), now)
            /\ (k \in CacheKeys(_cache') /\ CacheGet(_cache', k) # CacheGet(_cache, k)) =>
                  \E t \in Tasks : InsertStep(t) /\ cache_key[t] = k]_vars
    /\ [][\A t \in Tasks :
            (ReadStep(t) /\ Fresh(_cache, cache_key[t])) =>
                /\ HitStep(t)
                /\ results'[t] = CacheGet(_cache, cache_key[t]).value]_vars

\* a write into a cache of one entry evicted the other key and kept its
\* own, and the next read of the key was a hit with the written list
C28_Witness ==
    \E t \in Tasks, u \in Tasks :
        /\ MATCH_CACHE_MAX_ENTRIES = 1
        /\ pc[t] = "done" /\ note[t].writes = 1 /\ note[t].evicted = 1
        /\ pc[u] = "done" /\ note[u].hit /\ cache_key[u] = cache_key[t]
        /\ results[u] = results[t]
        /\ Fresh(_cache, cache_key[t])

\* the scoring of task t's request leaves no job above the threshold
ScoresNothing(t) ==
    /\ req[t] \in RequestIds
    /\ ~NoJobs(_deduplicate_jobs(Requests[req[t]].job_embeddings))
    /\ ~ScoringRaises(_deduplicate_jobs(Requests[req[t]].job_embeddings))
    /\ RankedOf[req[t], now] = <<>>

\* C29: an empty result list is cached like any other: a miss whose scoring
\* filters out every job goes on to the write and inserts the empty list
\* under its key with a full TTL, and a read that finds an unexpired entry
\* holding the empty list is a hit that returns the empty list without
\* scoring any job and without writing.
C29_EmptyListCached ==
    /\ [][\A t \in Tasks :
            (pc[t] = "compute" /\ pc'[t] # "compute" /\ ScoresNothing(t)) =>
                /\ pc'[t] \in {"set_body", "set_wait"}
                /\ results'[t] = <<>>]_vars
    /\ [][\A t \in Tasks :
            (InsertStep(t) /\ results[t] = <<>>) =>
                /\ cache_key[t] \in CacheKeys(_cache')
                /\ CacheGet(_cache', cache_key[t]).value = <<>>
                /\ CacheGet(_cache', cache_key[t]).expires_at
                      = now + MATCH_CACHE_TTL_SECONDS]_vars
    /\ [][\A t \in Tasks :
            (/\ ReadStep(t) /\ Fresh(_cache, cache_key[t])
             /\ CacheGet(_cache, cache_key[t]).value = <<>>) =>
                /\ HitStep(t)
                /\ results'[t] = <<>>
                /\ note'[t].scored = 0 /\ note'[t].writes = 0]_vars

\* one call scored its jobs, kept none and stored the empty list; a later
\* call with the same request has hit it and returns the empty list unscored
C29_Witness ==
    \E t \in Tasks :
        /\ pc[t] = "done" /\ note[t].hit /\ note[t].scored = 0
        /\ results[t] = <<>>
        /\ ~NoJobs(_deduplicate_jobs(Requests[req[t]].job_embeddings))
        /\ LruOf(lru, cache_key[t]).value = <<>>
        /\ \E u \in Tasks \ {t} :
              /\ pc[u] = "done" /\ req[u] = req[t]
              /\ note[u].writes = 1 /\ note[u].scored >= 1 /\ results[u] = <<>>

\* the places of the records that are not dropped: the first well-formed
\* record of each id
Survivors(given) ==
    {k \in 1..Len(given) : WellFormed(given[k]) /\ FirstPlace(given, given[k].id) = k}

\* the records at these places, in input order
KeptOf(given) ==
    LET S == Survivors(given)
    IN  [i \in 1..Cardinality(S) |->
            given[CHOOSE k \in S : Cardinality({m \in S : m <= k}) = i]]

\* a dropped record has an embedding of the wrong length
DroppedShort(given) ==
    \E k \in (1..Len(given)) \ Survivors(given) :
        /\ ~IsNone(given[k].embedding)
        /\ ~_validate_vector(Val(given[k].embedding))

\* C30: only the records that survive deduplication are validated: with a
\* valid graduate embedding the call raises exactly when the embedding of a
\* surviving record fails the validation, whatever the dropped records hold;
\* the cache key is built from the surviving records alone, every score
\* kept is of a surviving record, and the computed list is the one of the
\* surviving records alone.
C30_OnlySurvivorsValidated ==
    fn.kind = "request" =>
        LET a == fn.input
            given == a.job_embeddings
            kept == KeptOf(given)
            failing == {k \in Survivors(given) : ~_validate_vector(Val(given[k].embedding))}
        IN  /\ fn.stage = "raised" => failing # {}
            /\ fn.stage \in {"scored", "ranked"} => failing = {}
            /\ fn.stage \in {"deduplicated", "scored", "ranked"} =>
                  fn.key = _build_cache_key(a.graduate_embedding, kept,
                                            a.graduate_metadata, a.options)
            /\ fn.stage \in {"scored", "ranked"} =>
                  /\ Len(fn.scored) <= Len(kept)
                  /\ Ids(fn.scored) \subseteq Ids(kept)
            /\ fn.stage = "ranked" =>
                  fn.results = RankedResults(a.graduate_embedding, a.graduate_metadata,
                                             kept, a.options, now)

\* a list was computed from a job list in which a record without an id and a
\* later record of a kept id have embeddings of the wrong length
C30_Witness ==
    /\ fn.kind = "request" /\ fn.stage = "ranked"
    /\ fn.input.job_embeddings = <<Job1, JobNoIdShort, Job1Again>>
    /\ DroppedShort(fn.input.job_embeddings)
    /\ Ids(fn.results) = {"job-1"}

=============================================================================
